---- MODULE Spec2Model ----
(***************************************************************************)
(* Modbus/TCP firewall: the proxy data plane of modbus_firewall.py.        *)
(* One connection proxy (handle_client) per accepted client, driving       *)
(* process_request: frame codec -> DPI -> policy (+ rate limiter) ->        *)
(* forward / exception reply / silent drop.  asyncio is single threaded:   *)
(* one action is the code that runs between two suspension points.         *)
(***************************************************************************)
EXTENDS Integers, Sequences, FiniteSets, TLC

(***************************************************************************)
(* Bounds of the model.                                                    *)
(***************************************************************************)
\* client reads (process_request calls) in one behaviour with one client
MaxRequests == 3
\* client reads in one behaviour with two clients
MaxFlood == 2
\* last value of the clock, in ticks
MaxTime == 2
\* clock ticks in one second (the granularity of the rate window)
TicksPerSecond == 1
\* rate_limit of the policies that are checked (100 as shipped, 5 in S4)
RateLimit == 1
\* calls in one behaviour of a function that is checked on its own
MaxCalls == 3
\* longest PDU, in bytes, of the byte strings the codec is checked on
MaxTail == 2

(***************************************************************************)
(* Bytes and MBAP helpers.                                                 *)
(***************************************************************************)
\* a codec that reads its 16 bit fields little endian
BE16_LittleEndian(hi, lo) == lo * 256 + hi

\* struct '>H': two bytes, big endian
BE16(hi, lo) == hi * 256 + lo

Hi(n) == (n \div 256) % 256

Lo(n) == n % 256

Last(s) == s[Len(s)]

\* bytes.read(n): at most n bytes of what is buffered
Take(s, n) == IF Len(s) <= n THEN s ELSE SubSeq(s, 1, n)

\* Max Modbus ADU size, the argument of both read(260) calls
MaxADU == 260

\* ModbusException.ILLEGAL_FUNCTION
ILLEGAL_FUNCTION == 1

NoFrame == [none |-> TRUE]

(***************************************************************************)
(* Frame codec (dpi_engine.DPIEngine.parse_frame /                         *)
(* create_exception_response).                                             *)
(***************************************************************************)
\* a codec that does not look at the protocol id
parse_frame_AnyProtocol(data) ==
    IF Len(data) < 8
    THEN [frame |-> NoFrame, error |-> "TooShort"]
    ELSE IF \/ BE16(data[5], data[6]) # Len(data) - 6
            \/ BE16(data[5], data[6]) < 2
            \/ Len(data) > MaxADU
    THEN [frame |-> NoFrame, error |-> "LengthMismatch"]
    ELSE [frame |-> [data           |-> SubSeq(data, 9, Len(data)),
                     transaction_id |-> BE16(data[1], data[2]),
                     protocol_id    |-> BE16(data[3], data[4]),
                     length         |-> BE16(data[5], data[6]),
                     unit_id        |-> data[7],
                     function_code  |-> data[8],
                     raw            |-> data],
          error |-> ""]

\* a parser that compares the declared length before the protocol id
parse_frame_LengthFirst(data) ==
    IF Len(data) < 8
    THEN [frame |-> NoFrame, error |-> "TooShort"]
    ELSE IF \/ BE16(data[5], data[6]) # Len(data) - 6
            \/ BE16(data[5], data[6]) < 2
            \/ Len(data) > MaxADU
    THEN [frame |-> NoFrame, error |-> "LengthMismatch"]
    ELSE IF BE16(data[3], data[4]) # 0
    THEN [frame |-> NoFrame, error |-> "InvalidProtocolID"]
    ELSE parse_frame_AnyProtocol(data)

parse_frame(data) ==
    IF Len(data) < 8
    THEN [frame |-> NoFrame, error |-> "TooShort"]
    ELSE IF BE16(data[3], data[4]) # 0
    THEN [frame |-> NoFrame, error |-> "InvalidProtocolID"]
    ELSE IF \/ BE16(data[5], data[6]) # Len(data) - 6
            \/ BE16(data[5], data[6]) < 2
            \/ Len(data) > MaxADU
    THEN [frame |-> NoFrame, error |-> "LengthMismatch"]
    ELSE [frame |-> [data           |-> SubSeq(data, 9, Len(data)),
                     transaction_id |-> BE16(data[1], data[2]),
                     protocol_id    |-> BE16(data[3], data[4]),
                     length         |-> BE16(data[5], data[6]),
                     unit_id        |-> data[7],
                     function_code  |-> data[8],
                     raw            |-> data],
          error |-> ""]

create_exception_response(frame, exception_code) ==
    << Hi(frame.transaction_id), Lo(frame.transaction_id),
       Hi(frame.protocol_id), Lo(frame.protocol_id),
       0, 3,
       frame.unit_id,
       (frame.function_code % 128) + 128,
       exception_code >>

(***************************************************************************)
(* DPI engine (dpi_engine.DPIEngine.validate_frame_integrity).             *)
(***************************************************************************)
ReadCodes == {1, 2, 3, 4}

WriteSingleCodes == {5, 6}

WriteMultipleCodes == {15, 16}

\* the quantity field of a request, bytes 3..4 of the PDU data
Quantity(frame) == BE16(frame.data[3], frame.data[4])

validate_frame_integrity(frame) ==
    LET fc == frame.function_code
        n  == Len(frame.data)
    IN  IF fc \in ReadCodes
        THEN IF n # 4 THEN [error |-> "BadReadLength", valid |-> FALSE]
             ELSE IF fc \in {1, 2} /\ Quantity(frame) > 2000
             THEN [error |-> "BadCoilQuantity", valid |-> FALSE]
             ELSE IF fc \in {3, 4} /\ Quantity(frame) > 125
             THEN [error |-> "BadRegisterQuantity", valid |-> FALSE]
             ELSE [error |-> "", valid |-> TRUE]
        ELSE IF fc \in WriteSingleCodes
        THEN IF n # 4 THEN [error |-> "BadWriteSingleLength", valid |-> FALSE]
             ELSE [error |-> "", valid |-> TRUE]
        ELSE IF fc \in WriteMultipleCodes
        THEN IF n < 5 THEN [error |-> "BadWriteMultipleLength", valid |-> FALSE]
             ELSE IF frame.data[5] # n - 5
             THEN [error |-> "ByteCountMismatch", valid |-> FALSE]
             ELSE IF fc = 15 /\ Quantity(frame) > 2000
             THEN [error |-> "BadCoilQuantity", valid |-> FALSE]
             ELSE IF fc = 16 /\ Quantity(frame) > 123
             THEN [error |-> "BadRegisterQuantity", valid |-> FALSE]
             ELSE [error |-> "", valid |-> TRUE]
        ELSE [error |-> "", valid |-> TRUE]

(***************************************************************************)
(* Security policy and rate limiter                                        *)
(* (security_policy.SecurityPolicyEngine.evaluate).                        *)
(***************************************************************************)
\* function codes the policy treats as writes
WriteCodes == {5, 6, 15, 16, 22}

\* DEFAULT_CONFIG.security
DefaultPolicy ==
    [allowed_function_codes |-> {1, 2, 3, 4},
     blocked_function_codes |-> {5, 6, 15, 16},
     write_allowed_ips      |-> {},
     rate_limit             |-> RateLimit]

\* scenario S5: the shipped policy with one write-exempt source
ExemptPolicy ==
    [DefaultPolicy EXCEPT !.write_allowed_ips = {"10.0.0.5"}]

\* a policy whose allowed set overlaps the blocked set and the write codes
OverlapPolicy ==
    [allowed_function_codes |-> {3, 6, 22},
     blocked_function_codes |-> {3, 6},
     write_allowed_ips      |-> {"10.0.0.5"},
     rate_limit             |-> RateLimit]

\* the rate window, in clock ticks
Window == TicksPerSecond

\* a limiter that counts the requests it denies
rate_check_CountsDenied(win, threshold, t) ==
    LET kept == SelectSeq(win, LAMBDA ts : ts >= t - Window)
    IN  [ok |-> Len(kept) < threshold, window |-> Append(kept, t)]

\* RateLimiter.check(src) at time t: the decision and the new window of src
rate_check(win, threshold, t) ==
    LET kept == SelectSeq(win, LAMBDA ts : ts >= t - Window)
    IN  IF Len(kept) >= threshold
        THEN [ok |-> FALSE, window |-> kept]
        ELSE [ok |-> TRUE, window |-> Append(kept, t)]

\* the rules of the policy, in order, without the rate limiter
policy_rules(fc, src, pol) ==
    IF fc \in WriteCodes /\ src \notin pol.write_allowed_ips
    THEN [is_allowed |-> FALSE, reason |-> "SourceDenied"]
    ELSE IF fc \in pol.blocked_function_codes
    THEN [is_allowed |-> FALSE, reason |-> "BlockedFC"]
    ELSE IF fc \in pol.allowed_function_codes
    THEN [is_allowed |-> TRUE, reason |-> "AllowedFC"]
    ELSE [is_allowed |-> FALSE, reason |-> "UnknownFC"]

\* a policy engine that refuses frames with an odd transaction id
evaluate_ByTransactionId(frame, src, pol, win, t) ==
    LET d == policy_rules(frame.function_code, src, pol)
    IN  [window |-> win, is_allowed |-> d.is_allowed /\ frame.transaction_id % 2 = 0,
         reason |-> d.reason]

\* evaluate(frame, client_ip): the decision and the new window of client_ip
evaluate(frame, src, pol, win, t) ==
    LET d == policy_rules(frame.function_code, src, pol)
    IN  IF ~d.is_allowed
        THEN [window |-> win, is_allowed |-> FALSE, reason |-> d.reason]
        ELSE LET r == rate_check(win, pol.rate_limit, t)
             IN  IF r.ok
                 THEN [window |-> r.window, is_allowed |-> TRUE, reason |-> d.reason]
                 ELSE [window |-> r.window, is_allowed |-> FALSE,
                       reason |-> "RateLimited"]

(***************************************************************************)
(* Inputs: what a client may deliver in one read, and who connects.        *)
(***************************************************************************)
\* S1: ReadHoldingRegisters, start 0, count 10
ReadFrame == << 0, 1, 0, 0, 0, 6, 1, 3, 0, 0, 0, 10 >>

\* S2: WriteSingleRegister, register 0, value 999
WriteFrame == << 0, 2, 0, 0, 0, 6, 1, 6, 0, 0, 3, 231 >>

\* S3: protocol id 1
BadProtocolFrame == << 0, 3, 0, 1, 0, 6, 1, 3, 0, 0, 0, 10 >>

\* the simulator's malformed packet: protocol id 1 and a declared length of
\* 2 in front of the 6 bytes of a register read
MalformedProtocolFrame == << 0, 3, 0, 1, 0, 2, 1, 3, 0, 0, 0, 10 >>

\* S1 again with another transaction id, start 5, count 2
ReadAgainFrame == << 0, 12, 0, 0, 0, 6, 1, 3, 0, 5, 0, 2 >>

\* ReadInputRegisters (0x04), start 0, count 10
ReadInputFrame == << 0, 13, 0, 0, 0, 6, 1, 4, 0, 0, 0, 10 >>

\* MaskWriteRegister (0x16): a write code that is in no shipped set
MaskWriteFrame == << 0, 4, 0, 0, 0, 8, 1, 22, 0, 0, 0, 255, 0, 0 >>

\* EncapsulatedInterfaceTransport (0x2B): recognised, in no shipped set
MeiFrame == << 0, 5, 0, 0, 0, 5, 1, 43, 14, 1, 0 >>

\* ReadWriteMultipleRegisters (0x17): recognised, in no shipped set; read 1
\* register from 0, write 1 register at 0, value 7
ReadWriteRegistersFrame ==
    << 0, 14, 0, 0, 0, 13, 1, 23, 0, 0, 0, 1, 0, 0, 0, 1, 2, 0, 7 >>

\* function code 0x63: not a recognised code, in no shipped set, no data
UnassignedFrame == << 0, 15, 0, 0, 0, 2, 1, 99 >>

\* two well-formed requests that one read returns together: S1 and the
\* read with transaction id 12
PipelinedFrame == ReadFrame \o ReadAgainFrame

\* shorter than an MBAP header plus function code
ShortFrame == << 0, 6, 0, 0 >>

\* declared length 9, 6 bytes follow
LengthMismatchFrame == << 0, 7, 0, 0, 0, 9, 1, 3, 0, 0, 0, 10 >>

\* WriteSingleRegister with a 2 byte payload: parses, fails DPI
BadWriteFrame == << 0, 8, 0, 0, 0, 4, 1, 6, 0, 0 >>

\* WriteSingleCoil (0x05): coil 0 on
WriteCoilFrame == << 0, 9, 0, 0, 0, 6, 1, 5, 0, 0, 255, 0 >>

\* WriteMultipleCoils (0x0F): 8 coils from 0, one byte
WriteCoilsFrame == << 0, 10, 0, 0, 0, 8, 1, 15, 0, 0, 0, 8, 1, 255 >>

\* WriteMultipleRegisters (0x10): registers 0..2 := 100, 200, 300
WriteRegistersFrame ==
    << 0, 11, 0, 0, 0, 13, 1, 16, 0, 0, 0, 3, 6, 0, 100, 0, 200, 1, 44 >>

\* one read for each way a request can end: forwarded, blocked, rejected by
\* the codec (three reasons), rejected by DPI
ClientInputs ==
    {ReadFrame, WriteFrame, BadProtocolFrame, ShortFrame,
     LengthMismatchFrame, BadWriteFrame}

\* the reads of the policy scenarios: one frame per rule of the policy
PolicyInputs == {ReadFrame, WriteFrame, MaskWriteFrame, MeiFrame}

\* the reads of the flood scenario (S4): allowed reads only
FloodInputs == {ReadFrame}

\* the reads of the exemption scenario (S5)
ExemptInputs == {ReadFrame, WriteFrame}

\* an allowed read and one frame for each write code the shipped policy blocks
WriteInputs ==
    {ReadFrame, WriteFrame, WriteCoilFrame, WriteCoilsFrame,
     WriteRegistersFrame}

\* peernames: two connections of one host and one of another host
ClientAddrs ==
    {<< "10.0.0.5", 40001 >>, << "10.0.0.5", 40002 >>, << "10.0.0.6", 40001 >>}

ClientIPs == {a[1] : a \in ClientAddrs}

\* the PLC's reply to a forwarded request: it echoes the MBAP transaction id
\* and unit id and carries a two byte payload
PlcResponse(req) ==
    << req[1], req[2], 0, 0, 0, 5, req[7], req[8], 2, 171, 205 >>

(***************************************************************************)
(* State of the firewall process.                                          *)
(***************************************************************************)
VARIABLES
    peers,         \* the clients that exist: the peernames that may connect
    policy,        \* self.config.security, fixed at construction
    running,       \* self.running
    now,           \* the clock the rate limiter reads, in ticks
    pc,            \* where each handle_client task is suspended
    connections,   \* self.connections: peername -> ConnectionStats
    totals,        \* self.total_requests / _allowed / _blocked / _errors
    windows,       \* the rate limiter's map: source -> recent timestamps
    clientSock,    \* the client socket, as the proxy holds it
    plcSock,       \* the upstream socket, as the proxy holds it
    upIn,          \* every buffer written to the upstream socket, in order
    upAnswered,    \* how many of them the PLC has answered
    upBuf,         \* bytes the PLC has sent and the proxy has not read yet
    toClient,      \* every buffer written to the client socket, in order
    log,           \* the transaction log: log_transaction records, in order
    allowedAt,     \* per source, the clock at each ALLOW decision, in order
    upReads,       \* per connection, how each upstream read ended, in order
    calls,         \* the calls made to a function checked on its own, in order
    sink,          \* the logger's file sink, when the logger is run on its own
    limiterLock,   \* the rate limiter's mutex: the proxy holding it, or << >>
    bridge,        \* the HTTP bridge, when it is run on its own: where its
                   \* handler is, the connections it has opened, its replies
    lastNotice     \* per connection, the latest log_info / log_warning /
                   \* log_error message of its handler (the "Connection
                   \* error" of the way out, which "Connection closed"
                   \* replaces two steps later, is not kept)

vars ==
    << peers, policy, running, now, pc, connections, totals, windows,
       clientSock, plcSock, upIn, upAnswered, upBuf, toClient, log, allowedAt,
       upReads, calls, sink, limiterLock, bridge, lastNotice >>

\* the pieces one formatted line is written in; the last ends the line
LineParts == 3

\* the n-th record of proxy c, formatted
FormatLine(c, n) ==
    [part \in 1 .. LineParts |-> [n |-> n, part |-> part, w |-> c]]

\* the header line the file sink writes when it opens the file
HeaderLine == FormatLine("header", 0)

\* the logger after construction: the file holds its header, the mutex is
\* free and no proxy is inside log_transaction
NewSink ==
    [mutex |-> "free",
     inside |-> {},
     pending |-> [c \in ClientAddrs |-> << >>],
     made |-> 0,
     file |-> HeaderLine]

\* the bridge after construction: no request is handled, no connection was
\* opened, no response was returned
NewBridge == [pc |-> "idle", socks |-> << >>, responses |-> << >>]

\* no entry in self.connections
NoStats == [absent |-> TRUE]

\* ConnectionStats(client_addr=...)
NewStats == [requests |-> 0, allowed |-> 0, blocked |-> 0, errors |-> 0]

InitSystem(pol, clients) ==
    /\ peers \in clients
    /\ policy = pol
    /\ running = TRUE
    /\ now = 0
    /\ pc = [c \in ClientAddrs |-> "none"]
    /\ connections = [c \in ClientAddrs |-> NoStats]
    /\ totals = NewStats
    /\ windows = [ip \in ClientIPs |-> << >>]
    /\ clientSock = [c \in ClientAddrs |-> "none"]
    /\ plcSock = [c \in ClientAddrs |-> "none"]
    /\ upIn = [c \in ClientAddrs |-> << >>]
    /\ upAnswered = [c \in ClientAddrs |-> 0]
    /\ upBuf = [c \in ClientAddrs |-> << >>]
    /\ toClient = [c \in ClientAddrs |-> << >>]
    /\ log = << >>
    /\ allowedAt = [ip \in ClientIPs |-> << >>]
    /\ upReads = [c \in ClientAddrs |-> << >>]
    /\ lastNotice = [c \in ClientAddrs |-> << >>]
    /\ sink = NewSink
    /\ limiterLock = << >>
    /\ bridge = NewBridge

\* self.logger.log_info / log_warning / log_error(message)
Notice(c, level, message) ==
    lastNotice' = [lastNotice EXCEPT ![c] = << level, message >>]

\* the proxy after construction; no function is called on its own
InitWith(pol, clients) ==
    /\ InitSystem(pol, clients)
    /\ calls = << >>

(***************************************************************************)
(* process_request, up to its first suspension point.                      *)
(***************************************************************************)
\* a proxy that forwards whatever parses and validates
Dispatch_IgnoreDecision(error, valid, is_allowed) ==
    IF error # "" THEN "ERROR"
    ELSE IF ~valid THEN "ERROR"
    ELSE "ALLOW"

\* a proxy that treats a frame failing DPI as a blocked request
Dispatch_BlockInvalid(error, valid, is_allowed) ==
    IF error # "" THEN "ERROR"
    ELSE IF is_allowed THEN "ALLOW"
    ELSE "BLOCK"

\* which branch of process_request a request takes
Dispatch(error, valid, is_allowed) ==
    IF error # "" THEN "ERROR"
    ELSE IF ~valid THEN "ERROR"
    ELSE IF is_allowed THEN "ALLOW"
    ELSE "BLOCK"

\* a proxy that asks the policy engine about one fixed source
PolicySource_OneBucket(client_ip, client_port) == "10.0.0.5"

\* the source the policy engine is asked about: the IP, not the peername
PolicySource(client_ip, client_port) == client_ip

\* a proxy that re-encodes the frame with its own transaction id
UpstreamBytes_OwnTransactionId(buf, frame) ==
    << 0, 0 >> \o SubSeq(buf, 3, Len(buf))

\* plc_writer.write(data)
UpstreamBytes(buf, frame) == buf

\* a proxy that answers a block with ILLEGAL_DATA_VALUE (3)
BlockReply_IllegalDataValue(frame) == create_exception_response(frame, 3)

\* create_exception_response(frame, ModbusException.ILLEGAL_FUNCTION)
BlockReply(frame) == create_exception_response(frame, ILLEGAL_FUNCTION)

\* a proxy that answers an allowed request with an exception of its own
RelayBytes_Exception(response) ==
    << response[1], response[2], 0, 0, 0, 3, response[7],
       (response[8] % 128) + 128, ILLEGAL_FUNCTION >>

\* a proxy that writes the bytes it read from the upstream twice
RelayBytes_Twice(response) == response \o response

\* client_writer.write(response)
RelayBytes(response) == response

\* a proxy that forwards before it looks at the decision
UpstreamWrites_AlsoOnBlock(br, buf, frame) ==
    IF br \in {"ALLOW", "BLOCK"} THEN << UpstreamBytes(buf, frame) >> ELSE << >>

\* a proxy that forwards what it could not parse or validate
UpstreamWrites_AlsoOnError(br, buf, frame) ==
    IF br \in {"ALLOW", "ERROR"} THEN << buf >> ELSE << >>

\* what the branch writes to the upstream socket
UpstreamWrites(br, buf, frame) ==
    IF br = "ALLOW" THEN << UpstreamBytes(buf, frame) >> ELSE << >>

\* a proxy that answers what it could not parse or validate, too
ClientWrites_AlsoOnError(br, frame) ==
    IF br = "BLOCK" THEN << BlockReply(frame) >>
    ELSE IF br = "ERROR" THEN << << 0, 0, 0, 0, 0, 3, 0, 128, ILLEGAL_FUNCTION >> >>
    ELSE << >>

\* a proxy that drops what the policy blocks without a reply
ClientWrites_SilentDrop(br, frame) == << >>

\* a proxy that writes the exception reply twice
ClientWrites_ExceptionTwice(br, frame) ==
    IF br = "BLOCK" THEN << BlockReply(frame), BlockReply(frame) >> ELSE << >>

\* what the branch writes to the client socket before it first awaits
ClientWrites(br, frame) ==
    IF br = "BLOCK" THEN << BlockReply(frame) >> ELSE << >>

\* a logger call that leaves the reason out
Record_ReasonDropped(txid, ip, port, fc, action, reason, unit, dlen) ==
    [transaction_id |-> txid, unit_id |-> unit,
     function_code |-> fc, reason |-> "", action |-> action,
     source_ip |-> ip, source_port |-> port, data_length |-> dlen]

\* a logger call that reports every block as a blocked function code
Record_BlockedFunctionCode(txid, ip, port, fc, action, reason, unit, dlen) ==
    [transaction_id |-> txid, unit_id |-> unit,
     function_code |-> fc, reason |-> IF action = "BLOCK" THEN "BlockedFC" ELSE reason,
     action |-> action, source_ip |-> ip, source_port |-> port, data_length |-> dlen]

\* the argument list of one logger.log_transaction call
Record(txid, ip, port, fc, action, reason, unit, dlen) ==
    [transaction_id |-> txid, unit_id |-> unit,
     function_code |-> fc, reason |-> reason, action |-> action,
     source_ip |-> ip, source_port |-> port, data_length |-> dlen]

\* process_request(data, client_ip, client_port, ...): everything it does
\* before it first awaits, as a record of effects
process_request(buf, client_ip, client_port, pol, wins, t) ==
    LET p  == parse_frame(buf)
        f  == p.frame
        src == PolicySource(client_ip, client_port)
        win == wins[src]
        v  == IF p.error = "" THEN validate_frame_integrity(f)
              ELSE [error |-> "", valid |-> FALSE]
        e  == IF p.error = "" /\ v.valid
              THEN evaluate(f, src, pol, win, t)
              ELSE [window |-> win, is_allowed |-> FALSE, reason |-> ""]
        br == Dispatch(p.error, v.valid, e.is_allowed)
    IN  [windows  |-> [wins EXCEPT ![src] = e.window],
         branch   |-> br,
         record   |->
             IF p.error # ""
             THEN Record(0, client_ip, client_port, 0, "ERROR", p.error, 0, 0)
             ELSE IF br = "ERROR"
             THEN Record(f.transaction_id, client_ip, client_port,
                         f.function_code, "ERROR", v.error, f.unit_id, 0)
             ELSE Record(f.transaction_id, client_ip, client_port,
                         f.function_code, br, e.reason, f.unit_id, Len(f.data)),
         upstream |-> UpstreamWrites(br, buf, f),
         client   |-> ClientWrites(br, f)]

\* a proxy that counts a blocked request as an error as well
Bump_BlockedAlsoError(stats, br) ==
    [requests |-> stats.requests + 1,
     allowed  |-> stats.allowed + (IF br = "ALLOW" THEN 1 ELSE 0),
     blocked  |-> stats.blocked + (IF br = "BLOCK" THEN 1 ELSE 0),
     errors   |-> stats.errors + (IF br \in {"BLOCK", "ERROR"} THEN 1 ELSE 0)]

\* the counter a branch increments, besides requests
Bump(stats, br) ==
    [requests |-> stats.requests + 1,
     allowed  |-> stats.allowed + (IF br = "ALLOW" THEN 1 ELSE 0),
     blocked  |-> stats.blocked + (IF br = "BLOCK" THEN 1 ELSE 0),
     errors   |-> stats.errors + (IF br = "ERROR" THEN 1 ELSE 0)]

\* a loop that never tests self.running
LoopTop_IgnoresRunning(c) ==
    /\ pc' = [pc EXCEPT ![c] = "reading"]
    /\ plcSock' = plcSock

\* top of `while self.running:`: read again, or fall through to `finally`
LoopTop(c) ==
    IF running
    THEN /\ pc' = [pc EXCEPT ![c] = "reading"]
         /\ plcSock' = plcSock
    ELSE /\ pc' = [pc EXCEPT ![c] = "close_plc"]
         /\ plcSock' = [plcSock EXCEPT ![c] = "closed"]

(***************************************************************************)
(* handle_client: session set-up.                                          *)
(***************************************************************************)
\* the listener accepts a client: handle_client runs to `await open_connection`
Accept(c) ==
    /\ running
    /\ c \in peers
    /\ pc[c] = "none"
    /\ pc' = [pc EXCEPT ![c] = "dialing"]
    /\ clientSock' = [clientSock EXCEPT ![c] = "open"]
    /\ connections' = [connections EXCEPT ![c] = NewStats]
    /\ Notice(c, "INFO", "New connection")
    /\ UNCHANGED << peers, policy, running, now, totals, windows, plcSock,
                    upIn, upAnswered, upBuf, toClient, log, allowedAt,
                    upReads, calls, sink, limiterLock, bridge >>

\* open_connection succeeds: the relay loop is entered
DialOk(c) ==
    /\ pc[c] = "dialing"
    /\ IF running
       THEN /\ pc' = [pc EXCEPT ![c] = "reading"]
            /\ plcSock' = [plcSock EXCEPT ![c] = "open"]
       ELSE /\ pc' = [pc EXCEPT ![c] = "close_plc"]
            /\ plcSock' = [plcSock EXCEPT ![c] = "closed"]
    /\ Notice(c, "INFO", "Connected to PLC")
    /\ UNCHANGED << peers, policy, running, now, connections, totals, windows,
                    clientSock, upIn, upAnswered, upBuf, toClient, log,
                    allowedAt, upReads, calls, sink, limiterLock, bridge >>

\* a dial failure that is counted as a failed request
DialFail_CountsError(c) ==
    /\ pc[c] = "dialing"
    /\ pc' = [pc EXCEPT ![c] = "closed"]
    /\ clientSock' = [clientSock EXCEPT ![c] = "closed"]
    /\ Notice(c, "ERROR", "connecting to PLC")
    /\ totals' = Bump(totals, "ERROR")
    /\ UNCHANGED << peers, policy, running, now, connections, windows,
                    plcSock, upIn, upAnswered, upBuf, toClient, log,
                    allowedAt, upReads, calls, sink, limiterLock, bridge >>

\* open_connection times out or is refused: log the error (one of two
\* messages, kept as one), close the client and return
DialFail(c) ==
    /\ pc[c] = "dialing"
    /\ pc' = [pc EXCEPT ![c] = "closed"]
    /\ clientSock' = [clientSock EXCEPT ![c] = "closed"]
    /\ Notice(c, "ERROR", "connecting to PLC")
    /\ UNCHANGED << peers, policy, running, now, connections, totals, windows,
                    plcSock, upIn, upAnswered, upBuf, toClient, log,
                    allowedAt, upReads, calls, sink, limiterLock, bridge >>

(***************************************************************************)
(* handle_client: the relay loop.                                          *)
(***************************************************************************)
\* client_reader.read(260) returns buf: process_request runs to its first
\* await (or to its return, on the ERROR branch)
ClientRead(c, buf) ==
    /\ pc[c] = "reading"
    /\ LET r == process_request(buf, c[1], c[2], policy, windows, now)
       IN  /\ totals' = Bump(totals, r.branch)
           /\ connections' =
                 [connections EXCEPT
                     ![c] = IF connections[c] = NoStats THEN NoStats
                            ELSE Bump(connections[c], r.branch)]
           /\ windows' = r.windows
           /\ log' = Append(log, r.record)
           /\ allowedAt' =
                 IF r.branch = "ALLOW"
                 THEN [allowedAt EXCEPT ![c[1]] = Append(allowedAt[c[1]], now)]
                 ELSE allowedAt
           /\ upIn' = [upIn EXCEPT ![c] = upIn[c] \o r.upstream]
           /\ toClient' = [toClient EXCEPT ![c] = toClient[c] \o r.client]
           /\ IF r.branch = "ALLOW"
              THEN pc' = [pc EXCEPT ![c] = "plc_drain"] /\ plcSock' = plcSock
              ELSE IF r.branch = "BLOCK"
              THEN pc' = [pc EXCEPT ![c] = "block_drain"] /\ plcSock' = plcSock
              ELSE LoopTop(c)
    /\ UNCHANGED << peers, policy, running, now, clientSock, upAnswered,
                    upBuf, upReads, calls,
                    lastNotice, sink, limiterLock, bridge >>

\* an idle timeout that ends the session as end-of-stream does
ClientIdleTimeout_ClosesSession(c) ==
    /\ pc[c] = "reading"
    /\ pc' = [pc EXCEPT ![c] = "close_plc"]
    /\ plcSock' = [plcSock EXCEPT ![c] = "closed"]
    /\ UNCHANGED << peers, policy, running, now, connections, totals, windows,
                    clientSock, upIn, upAnswered, upBuf, toClient, log,
                    allowedAt, upReads, calls,
                    lastNotice, sink, limiterLock, bridge >>

\* the 60 s wait_for around the client read expires: `continue`
ClientIdleTimeout(c) ==
    /\ pc[c] = "reading"
    /\ LoopTop(c)
    /\ UNCHANGED << peers, policy, running, now, connections, totals, windows,
                    clientSock, upIn, upAnswered, upBuf, toClient, log,
                    allowedAt, upReads, calls,
                    lastNotice, sink, limiterLock, bridge >>

\* the client read returns b'': `break`, and `finally` closes the upstream
ClientEOF(c) ==
    /\ pc[c] = "reading"
    /\ pc' = [pc EXCEPT ![c] = "close_plc"]
    /\ plcSock' = [plcSock EXCEPT ![c] = "closed"]
    /\ UNCHANGED << peers, policy, running, now, connections, totals, windows,
                    clientSock, upIn, upAnswered, upBuf, toClient, log,
                    allowedAt, upReads, calls,
                    lastNotice, sink, limiterLock, bridge >>

\* `await plc_writer.drain()` returns: wait for the PLC's reply
PlcDrainOk(c) ==
    /\ pc[c] = "plc_drain"
    /\ pc' = [pc EXCEPT ![c] = "plc_read"]
    /\ UNCHANGED << peers, policy, running, now, connections, totals, windows,
                    clientSock, plcSock, upIn, upAnswered, upBuf, toClient,
                    log, allowedAt, upReads, calls,
                    lastNotice, sink, limiterLock, bridge >>

\* plc_reader.read(260) returns what is buffered: relay it to the client
PlcRead(c) ==
    /\ pc[c] = "plc_read"
    /\ upBuf[c] # << >>
    /\ upReads' = [upReads EXCEPT ![c] = Append(@, "data")]
    /\ LET response == Take(upBuf[c], MaxADU)
       IN  /\ toClient' = [toClient EXCEPT
                              ![c] = Append(toClient[c], RelayBytes(response))]
           /\ upBuf' = [upBuf EXCEPT
                           ![c] = SubSeq(upBuf[c], Len(response) + 1, Len(upBuf[c]))]
    /\ pc' = [pc EXCEPT ![c] = "client_drain"]
    /\ UNCHANGED << peers, policy, running, now, connections, totals, windows,
                    clientSock, plcSock, upIn, upAnswered, log, allowedAt,
                    calls,
                    lastNotice, sink, limiterLock, bridge >>

\* plc_reader.read(260) returns b'' (the PLC has closed and nothing is
\* buffered): `if response:` is false, nothing is relayed, no warning
PlcEOF(c) ==
    /\ pc[c] = "plc_read"
    /\ upBuf[c] = << >>
    /\ plcSock[c] = "eof"
    /\ upReads' = [upReads EXCEPT ![c] = Append(@, "eof")]
    /\ LoopTop(c)
    /\ UNCHANGED << peers, policy, running, now, connections, totals, windows,
                    clientSock, upIn, upAnswered, upBuf, toClient, log,
                    allowedAt, calls,
                    lastNotice, sink, limiterLock, bridge >>

\* a reply timeout that ends the session
PlcTimeout_ClosesSession(c) ==
    /\ pc[c] = "plc_read"
    /\ upBuf[c] = << >>
    /\ plcSock[c] = "open"
    /\ upReads' = [upReads EXCEPT ![c] = Append(@, "timeout")]
    /\ pc' = [pc EXCEPT ![c] = "close_plc"]
    /\ plcSock' = [plcSock EXCEPT ![c] = "closed"]
    /\ Notice(c, "WARNING", "Timeout waiting for PLC response")
    /\ UNCHANGED << peers, policy, running, now, connections, totals, windows,
                    clientSock, upIn, upAnswered, upBuf, toClient, log,
                    allowedAt, calls, sink, limiterLock, bridge >>

\* a reply timeout that is counted as a failed request
PlcTimeout_CountsError(c) ==
    /\ pc[c] = "plc_read"
    /\ upBuf[c] = << >>
    /\ plcSock[c] = "open"
    /\ upReads' = [upReads EXCEPT ![c] = Append(@, "timeout")]
    /\ LoopTop(c)
    /\ totals' = Bump(totals, "ERROR")
    /\ Notice(c, "WARNING", "Timeout waiting for PLC response")
    /\ UNCHANGED << peers, policy, running, now, connections, windows,
                    clientSock, upIn, upAnswered, upBuf, toClient, log,
                    allowedAt, calls, sink, limiterLock, bridge >>

\* the 5 s wait_for around the upstream read expires: log_warning and go on
PlcTimeout(c) ==
    /\ pc[c] = "plc_read"
    /\ upBuf[c] = << >>
    /\ plcSock[c] = "open"
    /\ upReads' = [upReads EXCEPT ![c] = Append(@, "timeout")]
    /\ LoopTop(c)
    /\ Notice(c, "WARNING", "Timeout waiting for PLC response")
    /\ UNCHANGED << peers, policy, running, now, connections, totals, windows,
                    clientSock, upIn, upAnswered, upBuf, toClient, log,
                    allowedAt, calls, sink, limiterLock, bridge >>

\* `await client_writer.drain()` returns, after a relay or an exception reply
ClientDrainOk(c) ==
    /\ pc[c] \in {"client_drain", "block_drain"}
    /\ LoopTop(c)
    /\ UNCHANGED << peers, policy, running, now, connections, totals, windows,
                    clientSock, upIn, upAnswered, upBuf, toClient, log,
                    allowedAt, upReads, calls,
                    lastNotice, sink, limiterLock, bridge >>

\* a handler whose failure takes the listener down with it
SocketError_StopsListener(c) ==
    /\ pc[c] \in {"reading", "plc_drain", "plc_read", "client_drain", "block_drain"}
    /\ pc' = [pc EXCEPT ![c] = "close_plc"]
    /\ plcSock' = [plcSock EXCEPT ![c] = "closed"]
    /\ running' = FALSE
    /\ UNCHANGED << peers, policy, now, connections, totals, windows,
                    clientSock, upIn, upAnswered, upBuf, toClient, log,
                    allowedAt, upReads, calls,
                    lastNotice, sink, limiterLock, bridge >>

\* an await inside the loop raises (connection reset, broken pipe):
\* `except Exception` logs it and `finally` closes the upstream
SocketError(c) ==
    /\ pc[c] \in {"reading", "plc_drain", "plc_read", "client_drain", "block_drain"}
    /\ pc' = [pc EXCEPT ![c] = "close_plc"]
    /\ plcSock' = [plcSock EXCEPT ![c] = "closed"]
    /\ UNCHANGED << peers, policy, running, now, connections, totals, windows,
                    clientSock, upIn, upAnswered, upBuf, toClient, log,
                    allowedAt, upReads, calls,
                    lastNotice, sink, limiterLock, bridge >>

\* the task is cancelled at an await inside the loop (asyncio.run cancels
\* the tasks that are left once main() has returned, that is after stop()):
\* `except asyncio.CancelledError: pass`, then `finally`
CancelInLoop(c) ==
    /\ ~running
    /\ pc[c] \in {"reading", "plc_drain", "plc_read", "client_drain", "block_drain"}
    /\ pc' = [pc EXCEPT ![c] = "close_plc"]
    /\ plcSock' = [plcSock EXCEPT ![c] = "closed"]
    /\ UNCHANGED << peers, policy, running, now, connections, totals, windows,
                    clientSock, upIn, upAnswered, upBuf, toClient, log,
                    allowedAt, upReads, calls,
                    lastNotice, sink, limiterLock, bridge >>

\* the task is cancelled while it dials.  CancelledError is an Exception up
\* to Python 3.7 (the handler closes the client and returns) and a
\* BaseException from 3.8 on (it leaves handle_client; the stream server
\* closes the transport from 3.12 on and leaves it open before)
CancelInDial(c) ==
    /\ ~running
    /\ pc[c] = "dialing"
    /\ pc' = [pc EXCEPT ![c] = "closed"]
    /\ \E sock \in {"open", "closed"} :
           clientSock' = [clientSock EXCEPT ![c] = sock]
    /\ UNCHANGED << peers, policy, running, now, connections, totals, windows,
                    plcSock, upIn, upAnswered, upBuf, toClient, log,
                    allowedAt, upReads, calls,
                    lastNotice, sink, limiterLock, bridge >>

(***************************************************************************)
(* handle_client: `finally`.                                               *)
(***************************************************************************)
\* a `finally` that gives up when closing the upstream fails
CloseClient_SkippedOnError(c) ==
    /\ pc[c] = "close_plc"
    /\ pc' = [pc EXCEPT ![c] = "close_client"]
    /\ \E sock \in {clientSock[c], "closed"} :
           clientSock' = [clientSock EXCEPT ![c] = sock]
    /\ UNCHANGED << peers, policy, running, now, connections, totals, windows,
                    plcSock, upIn, upAnswered, upBuf, toClient, log,
                    allowedAt, upReads, calls,
                    lastNotice, sink, limiterLock, bridge >>

\* plc_writer.wait_closed() is over, returned or raised (bare `except`):
\* client_writer.close()
CloseClient(c) ==
    /\ pc[c] = "close_plc"
    /\ pc' = [pc EXCEPT ![c] = "close_client"]
    /\ clientSock' = [clientSock EXCEPT ![c] = "closed"]
    /\ UNCHANGED << peers, policy, running, now, connections, totals, windows,
                    plcSock, upIn, upAnswered, upBuf, toClient, log,
                    allowedAt, upReads, calls,
                    lastNotice, sink, limiterLock, bridge >>

\* client_writer.wait_closed() is over: log and drop the stats entry
Finish(c) ==
    /\ pc[c] = "close_client"
    /\ pc' = [pc EXCEPT ![c] = "closed"]
    /\ connections' = [connections EXCEPT ![c] = NoStats]
    /\ Notice(c, "INFO", "Connection closed")
    /\ UNCHANGED << peers, policy, running, now, totals, windows, clientSock,
                    plcSock, upIn, upAnswered, upBuf, toClient, log,
                    allowedAt, upReads, calls, sink, limiterLock, bridge >>

(***************************************************************************)
(* The environment: the PLC, the operator, the clock.                      *)
(***************************************************************************)
\* the PLC answers the oldest request it has not answered yet.  The proxy
\* looks at the upstream socket only in its upstream read, so a reply that
\* arrives earlier is shown arriving there (late replies included)
PlcReply(c) ==
    /\ plcSock[c] = "open"
    /\ pc[c] = "plc_read"
    /\ upAnswered[c] < Len(upIn[c])
    /\ upBuf' = [upBuf EXCEPT
                    ![c] = upBuf[c] \o PlcResponse(upIn[c][upAnswered[c] + 1])]
    /\ upAnswered' = [upAnswered EXCEPT ![c] = upAnswered[c] + 1]
    /\ UNCHANGED << peers, policy, running, now, pc, connections, totals,
                    windows, clientSock, plcSock, upIn, toClient, log,
                    allowedAt, upReads, calls,
                    lastNotice, sink, limiterLock, bridge >>

\* the PLC closes its end of the session: the proxy's reads reach end of
\* stream once what is buffered has been read.  As for PlcReply, the close
\* is shown when the proxy can observe it
PlcClose(c) ==
    /\ plcSock[c] = "open"
    /\ pc[c] = "plc_read"
    /\ plcSock' = [plcSock EXCEPT ![c] = "eof"]
    /\ UNCHANGED << peers, policy, running, now, pc, connections, totals,
                    windows, clientSock, upIn, upAnswered, upBuf, toClient,
                    log, allowedAt, upReads, calls,
                    lastNotice, sink, limiterLock, bridge >>

\* stop(): self.running = False and the listening socket is closed
Stop ==
    /\ running
    /\ running' = FALSE
    /\ UNCHANGED << peers, policy, now, pc, connections, totals, windows,
                    clientSock, plcSock, upIn, upAnswered, upBuf, toClient,
                    log, allowedAt, upReads, calls,
                    lastNotice, sink, limiterLock, bridge >>

\* time passes.  The limiter compares differences of clock readings only,
\* so the clock is followed while some recorded reading is inside the window
Tick ==
    /\ now < MaxTime
    /\ \E ip \in ClientIPs : \E i \in DOMAIN windows[ip] :
           windows[ip][i] >= now - Window
    /\ now' = now + 1
    /\ UNCHANGED << peers, policy, running, pc, connections, totals, windows,
                    clientSock, plcSock, upIn, upAnswered, upBuf, toClient,
                    log, allowedAt, upReads, calls,
                    lastNotice, sink, limiterLock, bridge >>

NextWith(inputs, maxreq) ==
    \/ \E c \in ClientAddrs : Accept(c)
    \/ \E c \in ClientAddrs : DialOk(c)
    \/ \E c \in ClientAddrs : DialFail(c)
    \/ \E c \in ClientAddrs : \E buf \in inputs :
           totals.requests < maxreq /\ ClientRead(c, buf)
    \/ \E c \in ClientAddrs : ClientIdleTimeout(c)
    \/ \E c \in ClientAddrs : ClientEOF(c)
    \/ \E c \in ClientAddrs : PlcDrainOk(c)
    \/ \E c \in ClientAddrs : PlcRead(c)
    \/ \E c \in ClientAddrs : PlcEOF(c)
    \/ \E c \in ClientAddrs : PlcTimeout(c)
    \/ \E c \in ClientAddrs : ClientDrainOk(c)
    \/ \E c \in ClientAddrs : SocketError(c)
    \/ \E c \in ClientAddrs : CancelInLoop(c)
    \/ \E c \in ClientAddrs : CancelInDial(c)
    \/ \E c \in ClientAddrs : CloseClient(c)
    \/ \E c \in ClientAddrs : Finish(c)
    \/ \E c \in ClientAddrs : PlcReply(c)
    \/ \E c \in ClientAddrs : PlcClose(c)
    \/ Stop
    \/ Tick

(***************************************************************************)
(* Specifications: the same proxy with one client and every kind of read,  *)
(* and with two clients and the reads of one scenario.                     *)
(***************************************************************************)
\* one client
OneClient == {{<< "10.0.0.5", 40001 >>}}

\* two clients, of one host or of two hosts
TwoClients ==
    {{<< "10.0.0.5", 40001 >>, << "10.0.0.5", 40002 >>},
     {<< "10.0.0.5", 40001 >>, << "10.0.0.6", 40001 >>}}

\* one client on each of two hosts
TwoHosts == {{<< "10.0.0.5", 40001 >>, << "10.0.0.6", 40001 >>}}

Init == InitWith(DefaultPolicy, OneClient)

Next == NextWith(ClientInputs, MaxRequests)

\* the shipped policy, one client, every kind of read
Spec == Init /\ [][Next]_vars

InitFlood == InitWith(DefaultPolicy, TwoClients)

NextFlood == NextWith(FloodInputs, MaxFlood)

\* the shipped policy, two clients flooding allowed reads
SpecFlood == InitFlood /\ [][NextFlood]_vars

InitHosts == InitWith(DefaultPolicy, OneClient \cup TwoHosts)

\* one client sends both register reads and every blocked write code, two
\* hosts send S1 and S2
HostInputs ==
    IF Cardinality(peers) = 1 THEN WriteInputs \cup {ReadInputFrame}
    ELSE ExemptInputs

NextHosts == NextWith(HostInputs, MaxFlood)

\* the shipped policy, one or two hosts sending reads and writes
SpecHosts == InitHosts /\ [][NextHosts]_vars

InitExempt == InitWith(ExemptPolicy, TwoHosts)

NextExempt == NextWith(ExemptInputs, MaxFlood)

\* scenario S5: one write-exempt host and one other host
SpecExempt == InitExempt /\ [][NextExempt]_vars

NextPolicy == NextWith(PolicyInputs, MaxFlood)

InitOverlap == InitWith(OverlapPolicy, TwoHosts)

\* every rule of the policy, with overlapping sets
SpecOverlap == InitOverlap /\ [][NextPolicy]_vars

\* an allowed read and the codes that are in neither shipped set: 0x17, 0x2B,
\* an unassigned code, and the write code 0x16
UnknownInputs ==
    {ReadFrame, ReadWriteRegistersFrame, MeiFrame, UnassignedFrame,
     MaskWriteFrame}

InitUnknown == InitWith(DefaultPolicy, OneClient)

NextUnknown == NextWith(UnknownInputs, MaxFlood)

\* the shipped policy, one client sending codes that are in neither set
SpecUnknown == InitUnknown /\ [][NextUnknown]_vars

\* reads that end in each counter: S1 is forwarded, or blocked once its
\* source is over the rate limit, and a frame failing DPI is an error
CounterInputs == {ReadFrame, BadWriteFrame}

InitCounters == InitWith(DefaultPolicy, TwoHosts)

NextCounters == NextWith(CounterInputs, MaxFlood)

\* the shipped policy, two connections, reads that end in each counter
SpecCounters == InitCounters /\ [][NextCounters]_vars

\* one request in a read (forwarded, blocked) and two requests in one read
PipelinedInputs == {ReadFrame, WriteFrame, PipelinedFrame}

InitPipelined == InitWith(DefaultPolicy, OneClient)

NextPipelined == NextWith(PipelinedInputs, MaxFlood)

\* the shipped policy, one client whose reads hold one or two requests
SpecPipelined == InitPipelined /\ [][NextPipelined]_vars

\* the steps of handler c that its own timers bound: the connect timeout,
\* the 60 s client read timeout, the 5 s reply timeout, and the drains and
\* closes of sockets whose buffers hold at most one frame
HandlerStep(c) ==
    \/ DialOk(c)
    \/ DialFail(c)
    \/ ClientIdleTimeout(c)
    \/ PlcDrainOk(c)
    \/ PlcRead(c)
    \/ PlcEOF(c)
    \/ PlcTimeout(c)
    \/ ClientDrainOk(c)
    \/ CloseClient(c)
    \/ Finish(c)

InitLive == InitWith(DefaultPolicy, OneClient)

NextLive == NextWith(ExemptInputs, MaxFlood)

\* the shipped policy, one client sending S1 and S2, every handler step that
\* a timer bounds eventually taken; the client and the PLC are free to stay
\* silent
SpecLive ==
    /\ InitLive
    /\ [][NextLive]_vars
    /\ \A c \in ClientAddrs : WF_vars(HandlerStep(c))

(***************************************************************************)
(* The policy engine on its own: evaluate called on parsed frames, with    *)
(* the limiter's windows and the clock as its only state.                  *)
(***************************************************************************)
\* the frames evaluate is called on: two with the same function code
EvaluateInputs == {ReadFrame, ReadAgainFrame, WriteFrame, MeiFrame}

\* one call of policy_engine.evaluate(frame, client_ip)
EvaluateCall(frame, src) ==
    /\ Len(calls) < MaxCalls
    /\ LET e == evaluate(frame, src, policy, windows[src], now)
       IN  /\ calls' = Append(calls,
                  [frame |-> frame, window |-> windows[src], src |-> src,
                   is_allowed |-> e.is_allowed, reason |-> e.reason,
                   time |-> now])
           /\ windows' = [windows EXCEPT ![src] = e.window]
    /\ UNCHANGED << peers, policy, running, now, pc, connections, totals,
                    clientSock, plcSock, upIn, upAnswered, upBuf, toClient,
                    log, allowedAt, upReads,
                    lastNotice, sink, limiterLock, bridge >>

InitEvaluate ==
    /\ \E pol \in {DefaultPolicy, ExemptPolicy, OverlapPolicy} :
           InitSystem(pol, OneClient)
    /\ calls = << >>

NextEvaluate ==
    \/ \E buf \in EvaluateInputs : \E src \in ClientIPs :
           EvaluateCall(parse_frame(buf).frame, src)
    \/ Tick

SpecEvaluate == InitEvaluate /\ [][NextEvaluate]_vars

(***************************************************************************)
(* The frame codec on its own: parse_frame called on byte strings, and     *)
(* create_exception_response called on what it accepts.                    *)
(***************************************************************************)
\* byte strings of every length up to n over the bytes in b
RECURSIVE Strings(_, _)
Strings(b, n) ==
    IF n = 0 THEN {<< >>}
    ELSE LET shorter == Strings(b, n - 1)
         IN  shorter \cup {Append(t, x) : t \in {u \in shorter : Len(u) = n - 1},
                                         x \in b}

\* MBAP headers: two transaction ids, three protocol ids, every declared
\* length near the real one and one above 255, two unit ids
Headers ==
    {t \o p \o l \o << u >> :
        t \in {<< 0, 1 >>, << 1, 2 >>},
        p \in {<< 0, 0 >>, << 0, 1 >>, << 1, 0 >>},
        l \in {<< 0, n >> : n \in 0 .. MaxTail + 3} \cup {<< 1, 0 >>},
        u \in {1, 255}}

\* a frame of n bytes whose declared length is right
Padded(n) ==
    << 0, 1, 0, 0, Hi(n - 6), Lo(n - 6), 1 >> \o [i \in 1 .. n - 7 |-> 3]

\* what parse_frame is called on: headers with PDUs of 0 .. MaxTail bytes
\* (function codes 3, 6 and 131), cut-off headers, the simulator's malformed
\* packet, and frames around the 260 byte limit
ByteInputs ==
    {h \o t : h \in Headers, t \in Strings({3, 6, 131}, MaxTail)}
    \cup {Take(ReadFrame, k) : k \in 0 .. 7}
    \cup {MalformedProtocolFrame}
    \cup {Padded(n) : n \in MaxADU - 1 .. MaxADU + 2}

\* the exception codes create_exception_response is called with
ExceptionCodes == 1 .. 4

\* one call of dpi_engine.parse_frame(data)
ParseCall(data) ==
    /\ calls = << >>
    /\ calls' = << [data |-> data, frame |-> parse_frame(data).frame,
                    error |-> parse_frame(data).error,
                    op |-> "parse"] >>
    /\ UNCHANGED << peers, policy, running, now, pc, connections, totals,
                    windows, clientSock, plcSock, upIn, upAnswered, upBuf,
                    toClient, log, allowedAt, upReads,
                    lastNotice, sink, limiterLock, bridge >>

\* one call of dpi_engine.create_exception_response(frame, code) on the
\* frame just parsed
ExceptionCall(code) ==
    /\ Len(calls) = 1
    /\ calls[1].error = ""
    /\ calls' = Append(calls,
          [data |-> calls[1].data, op |-> "exception", code |-> code,
           out |-> create_exception_response(calls[1].frame, code)])
    /\ UNCHANGED << peers, policy, running, now, pc, connections, totals,
                    windows, clientSock, plcSock, upIn, upAnswered, upBuf,
                    toClient, log, allowedAt, upReads,
                    lastNotice, sink, limiterLock, bridge >>

\* the call the BLOCK branch of process_request makes on the frame just parsed
BlockCall ==
    /\ Len(calls) = 1
    /\ calls[1].error = ""
    /\ calls' = Append(calls,
          [data |-> calls[1].data, op |-> "block", code |-> ILLEGAL_FUNCTION,
           out |-> BlockReply(calls[1].frame)])
    /\ UNCHANGED << peers, policy, running, now, pc, connections, totals,
                    windows, clientSock, plcSock, upIn, upAnswered, upBuf,
                    toClient, log, allowedAt, upReads,
                    lastNotice, sink, limiterLock, bridge >>

InitCodec == InitSystem(DefaultPolicy, OneClient) /\ calls = << >>

NextCodec ==
    \/ \E data \in ByteInputs : ParseCall(data)
    \/ \E code \in ExceptionCodes : ExceptionCall(code)
    \/ BlockCall

SpecCodec == InitCodec /\ [][NextCodec]_vars

(***************************************************************************)
(* The logger's file sink on its own: proxies that run in parallel call    *)
(* log_transaction; a call formats one line, takes the mutex, writes the   *)
(* line piece by piece and gives the mutex back.                           *)
(***************************************************************************)
\* log_transaction(...) is entered: the record is formatted
LogCall(c) ==
    /\ c \in peers
    /\ sink.made < MaxCalls
    /\ sink.pending[c] = << >>
    /\ c \notin sink.inside
    /\ sink' = [sink EXCEPT !.pending[c] = FormatLine(c, sink.made + 1),
                            !.made = @ + 1]
    /\ UNCHANGED << peers, policy, running, now, pc, connections, totals,
                    windows, clientSock, plcSock, upIn, upAnswered, upBuf,
                    toClient, log, allowedAt, upReads, calls, lastNotice,
                    limiterLock, bridge >>

\* a write path that does not take the mutex
LogAcquire_Unsynchronized(c) ==
    /\ sink.pending[c] # << >>
    /\ c \notin sink.inside
    /\ sink' = [sink EXCEPT !.mutex = c, !.inside = @ \cup {c}]
    /\ UNCHANGED << peers, policy, running, now, pc, connections, totals,
                    windows, clientSock, plcSock, upIn, upAnswered, upBuf,
                    toClient, log, allowedAt, upReads, calls, lastNotice,
                    limiterLock, bridge >>

\* the mutex is taken
LogAcquire(c) ==
    /\ sink.pending[c] # << >>
    /\ c \notin sink.inside
    /\ sink.mutex = "free"
    /\ sink' = [sink EXCEPT !.mutex = c, !.inside = @ \cup {c}]
    /\ UNCHANGED << peers, policy, running, now, pc, connections, totals,
                    windows, clientSock, plcSock, upIn, upAnswered, upBuf,
                    toClient, log, allowedAt, upReads, calls, lastNotice,
                    limiterLock, bridge >>

\* one more piece of the line reaches the file
LogWrite(c) ==
    /\ c \in sink.inside
    /\ sink.pending[c] # << >>
    /\ sink' = [sink EXCEPT !.file = Append(@, Head(sink.pending[c])),
                            !.pending[c] = Tail(@)]
    /\ UNCHANGED << peers, policy, running, now, pc, connections, totals,
                    windows, clientSock, plcSock, upIn, upAnswered, upBuf,
                    toClient, log, allowedAt, upReads, calls, lastNotice,
                    limiterLock, bridge >>

\* the line is written: the mutex is given back
LogRelease(c) ==
    /\ c \in sink.inside
    /\ sink.pending[c] = << >>
    /\ sink' = [sink EXCEPT !.mutex = "free", !.inside = @ \ {c}]
    /\ UNCHANGED << peers, policy, running, now, pc, connections, totals,
                    windows, clientSock, plcSock, upIn, upAnswered, upBuf,
                    toClient, log, allowedAt, upReads, calls, lastNotice,
                    limiterLock, bridge >>

InitLogger ==
    /\ InitSystem(DefaultPolicy, {ClientAddrs})
    /\ calls = << >>

NextLogger ==
    \/ \E c \in ClientAddrs : LogCall(c)
    \/ \E c \in ClientAddrs : LogAcquire(c)
    \/ \E c \in ClientAddrs : LogWrite(c)
    \/ \E c \in ClientAddrs : LogRelease(c)

SpecLogger == InitLogger /\ [][NextLogger]_vars

(***************************************************************************)
(* The synchronous section of process_request, call by call: from the      *)
(* return of the client read to the first await of the branch taken, on an *)
(* event loop that runs one task until it awaits.  The limiter and the     *)
(* logger take and give back their mutex inside their call.                *)
(***************************************************************************)
\* where a task is between two awaits of process_request
SectionStates ==
    {"evaluating", "rate_check", "rate_append", "rate_denied", "rate_done",
     "log_allow", "log_block", "logging"}

\* every task is suspended at an await: the event loop may resume any of them
LoopFree == \A d \in ClientAddrs : pc[d] \notin SectionStates

\* the frame the section is followed on: S1, which reaches the limiter
SectionFrame == parse_frame(ReadFrame).frame

\* a scheduler that resumes a task while another is between two awaits
SectionEnter_Preemptive(c) ==
    /\ pc[c] = "reading"
    /\ pc' = [pc EXCEPT ![c] = "evaluating"]
    /\ totals' = [totals EXCEPT !.requests = @ + 1]
    /\ connections' = [connections EXCEPT ![c].requests = @ + 1]
    /\ UNCHANGED << peers, policy, running, now, windows, clientSock, plcSock,
                    upIn, upAnswered, upBuf, toClient, log, allowedAt,
                    upReads, calls, sink, limiterLock, lastNotice, bridge >>

\* client_reader.read(260) returns S1 to a task the loop resumes: the
\* request counters, parse_frame and validate_frame_integrity, then
\* policy_engine.evaluate is entered
SectionEnter(c) ==
    /\ LoopFree
    /\ pc[c] = "reading"
    /\ pc' = [pc EXCEPT ![c] = "evaluating"]
    /\ totals' = [totals EXCEPT !.requests = @ + 1]
    /\ connections' = [connections EXCEPT ![c].requests = @ + 1]
    /\ UNCHANGED << peers, policy, running, now, windows, clientSock, plcSock,
                    upIn, upAnswered, upBuf, toClient, log, allowedAt,
                    upReads, calls, sink, limiterLock, lastNotice, bridge >>

\* the policy rules allow the code: the limiter is called and takes its mutex
RateAcquire(c) ==
    /\ pc[c] = "evaluating"
    /\ policy_rules(SectionFrame.function_code,
                    PolicySource(c[1], c[2]), policy).is_allowed
    /\ limiterLock = << >>
    /\ limiterLock' = c
    /\ pc' = [pc EXCEPT ![c] = "rate_check"]
    /\ UNCHANGED << peers, policy, running, now, connections, totals, windows,
                    clientSock, plcSock, upIn, upAnswered, upBuf, toClient,
                    log, allowedAt, upReads, calls, sink, lastNotice, bridge >>

\* the limiter drops the expired timestamps and compares the count
RateCheck(c) ==
    /\ pc[c] = "rate_check"
    /\ LET src == PolicySource(c[1], c[2])
           r == rate_check(windows[src], policy.rate_limit, now)
           kept == SelectSeq(windows[src], LAMBDA ts : ts >= now - Window)
       IN  /\ windows' = [windows EXCEPT ![src] = kept]
           /\ pc' = [pc EXCEPT
                        ![c] = IF r.ok THEN "rate_append" ELSE "rate_denied"]
    /\ UNCHANGED << peers, policy, running, now, connections, totals,
                    clientSock, plcSock, upIn, upAnswered, upBuf, toClient,
                    log, allowedAt, upReads, calls, sink, limiterLock,
                    lastNotice, bridge >>

\* the limiter appends the timestamp of the request it lets through
RateAppend(c) ==
    /\ pc[c] = "rate_append"
    /\ LET src == PolicySource(c[1], c[2])
       IN  /\ windows' = [windows EXCEPT ![src] = Append(@, now)]
           /\ allowedAt' = [allowedAt EXCEPT ![src] = Append(@, now)]
    /\ pc' = [pc EXCEPT ![c] = "rate_done"]
    /\ UNCHANGED << peers, policy, running, now, connections, totals,
                    clientSock, plcSock, upIn, upAnswered, upBuf, toClient,
                    log, upReads, calls, sink, limiterLock, lastNotice,
                    bridge >>

\* the limiter gives its mutex back and evaluate returns the decision
RateRelease(c) ==
    /\ pc[c] \in {"rate_done", "rate_denied"}
    /\ limiterLock' = << >>
    /\ pc' = [pc EXCEPT ![c] = IF pc[c] = "rate_done" THEN "log_allow"
                                ELSE "log_block"]
    /\ UNCHANGED << peers, policy, running, now, connections, totals, windows,
                    clientSock, plcSock, upIn, upAnswered, upBuf, toClient,
                    log, allowedAt, upReads, calls, sink, lastNotice, bridge >>

\* the branch counters, then logger.log_transaction is entered
SectionLogCall(c) ==
    /\ pc[c] \in {"log_allow", "log_block"}
    /\ LET f == SectionFrame
           br == IF pc[c] = "log_allow" THEN "ALLOW" ELSE "BLOCK"
       IN  /\ totals' = [totals EXCEPT
                            !.allowed = @ + (IF br = "ALLOW" THEN 1 ELSE 0),
                            !.blocked = @ + (IF br = "BLOCK" THEN 1 ELSE 0)]
           /\ connections' =
                 [connections EXCEPT
                     ![c].allowed = @ + (IF br = "ALLOW" THEN 1 ELSE 0),
                     ![c].blocked = @ + (IF br = "BLOCK" THEN 1 ELSE 0)]
           /\ log' = Append(log,
                 Record(f.transaction_id, c[1], c[2], f.function_code, br,
                        IF br = "ALLOW" THEN "AllowedFC" ELSE "RateLimited",
                        f.unit_id, Len(f.data)))
    /\ sink' = [sink EXCEPT !.pending[c] = FormatLine(c, sink.made + 1),
                            !.made = @ + 1]
    /\ pc' = [pc EXCEPT ![c] = "logging"]
    /\ UNCHANGED << peers, policy, running, now, windows, clientSock, plcSock,
                    upIn, upAnswered, upBuf, toClient, allowedAt, upReads,
                    calls, limiterLock, lastNotice, bridge >>

\* log_transaction has returned: the write of the branch, up to its await
SectionLeave(c) ==
    /\ pc[c] = "logging"
    /\ sink.pending[c] = << >>
    /\ c \notin sink.inside
    /\ LET br == Last(log).action
       IN  /\ upIn' = [upIn EXCEPT
                          ![c] = @ \o UpstreamWrites(br, ReadFrame, SectionFrame)]
           /\ toClient' = [toClient EXCEPT
                              ![c] = @ \o ClientWrites(br, SectionFrame)]
           /\ pc' = [pc EXCEPT ![c] = IF br = "ALLOW" THEN "plc_drain"
                                       ELSE "block_drain"]
    /\ UNCHANGED << peers, policy, running, now, connections, totals, windows,
                    clientSock, plcSock, upAnswered, upBuf, log, allowedAt,
                    upReads, calls, sink, limiterLock, lastNotice, bridge >>

\* two proxies of one host, or of two hosts
InitSections == InitSystem(DefaultPolicy, TwoClients) /\ calls = << >>

\* the loop resumes a suspended task, or the task that holds the loop goes on
NextSections ==
    \/ \E c \in ClientAddrs : LoopFree /\ Accept(c)
    \/ \E c \in ClientAddrs : LoopFree /\ DialOk(c)
    \/ \E c \in ClientAddrs : totals.requests < MaxCalls /\ SectionEnter(c)
    \/ \E c \in ClientAddrs : RateAcquire(c)
    \/ \E c \in ClientAddrs : RateCheck(c)
    \/ \E c \in ClientAddrs : RateAppend(c)
    \/ \E c \in ClientAddrs : RateRelease(c)
    \/ \E c \in ClientAddrs : SectionLogCall(c)
    \/ \E c \in ClientAddrs : pc[c] = "logging" /\ LogAcquire(c)
    \/ \E c \in ClientAddrs : pc[c] = "logging" /\ LogWrite(c)
    \/ \E c \in ClientAddrs : pc[c] = "logging" /\ LogRelease(c)
    \/ \E c \in ClientAddrs : SectionLeave(c)
    \/ \E c \in ClientAddrs : LoopFree /\ PlcDrainOk(c)
    \/ \E c \in ClientAddrs : LoopFree /\ PlcTimeout(c)
    \/ \E c \in ClientAddrs : LoopFree /\ ClientDrainOk(c)

SpecSections == InitSections /\ [][NextSections]_vars

(***************************************************************************)
(* The HTTP bridge (http_bridge.ModbusHttpBridge.handle_modbus_request):   *)
(* one POST /modbus at a time; each request that carries a frame opens its *)
(* own connection to the firewall.                                         *)
(***************************************************************************)
\* the handler returns the HTTP response with this status
BridgeReturn(b, status) ==
    [b EXCEPT !.pc = "idle", !.responses = Append(@, status)]

\* what the bridge does not touch
BridgeFrame ==
    UNCHANGED << peers, policy, running, now, pc, connections, totals,
                 windows, clientSock, plcSock, upIn, upAnswered, upBuf,
                 toClient, log, allowedAt, upReads, calls, sink, limiterLock,
                 lastNotice >>

\* POST /modbus with a body that is no JSON (500), has no 'data' field or
\* data that is no base64 (400): returned before any connection is opened
BridgeBadRequest(status) ==
    /\ bridge.pc = "idle"
    /\ bridge' = BridgeReturn(bridge, status)
    /\ BridgeFrame

\* POST /modbus with a frame: asyncio.open_connection is awaited
BridgeRequest ==
    /\ bridge.pc = "idle"
    /\ bridge' = [bridge EXCEPT !.pc = "connecting"]
    /\ BridgeFrame

\* open_connection returns: writer.write(modbus_frame), await writer.drain()
BridgeConnectOk ==
    /\ bridge.pc = "connecting"
    /\ bridge' = [bridge EXCEPT !.pc = "drain", !.socks = Append(@, "open")]
    /\ BridgeFrame

\* open_connection times out (504) or is refused (502): no connection
BridgeConnectFail(status) ==
    /\ bridge.pc = "connecting"
    /\ bridge' = BridgeReturn(bridge, status)
    /\ BridgeFrame

\* drain returns: reader.read(260) is awaited, at most 5 s
BridgeDrainOk ==
    /\ bridge.pc = "drain"
    /\ bridge' = [bridge EXCEPT !.pc = "read"]
    /\ BridgeFrame

\* drain or read raises because the connection was reset: the transport is
\* closed by the event loop, `except Exception` returns 502
BridgeReset ==
    /\ bridge.pc \in {"drain", "read"}
    /\ bridge' = BridgeReturn(
                    [bridge EXCEPT !.socks[Len(bridge.socks)] = "closed"], 502)
    /\ BridgeFrame

\* the 5 s wait_for around the read expires: `except asyncio.TimeoutError`
\* returns 504; writer.close() is not reached
BridgeReadTimeout ==
    /\ bridge.pc = "read"
    /\ bridge' = BridgeReturn(bridge, 504)
    /\ BridgeFrame

\* the read returns (a reply, or b'' at end of stream): writer.close() and
\* await writer.wait_closed()
BridgeRead ==
    /\ bridge.pc = "read"
    /\ bridge' = [bridge EXCEPT !.pc = "closing",
                                !.socks[Len(bridge.socks)] = "closed"]
    /\ BridgeFrame

\* wait_closed returns (200 with the reply) or raises (502)
BridgeClosed(status) ==
    /\ bridge.pc = "closing"
    /\ bridge' = BridgeReturn(bridge, status)
    /\ BridgeFrame

InitBridge == InitSystem(DefaultPolicy, OneClient) /\ calls = << >>

NextBridge ==
    \/ \E status \in {400, 500} :
           Len(bridge.responses) < MaxCalls /\ BridgeBadRequest(status)
    \/ Len(bridge.responses) < MaxCalls /\ BridgeRequest
    \/ BridgeConnectOk
    \/ \E status \in {502, 504} : BridgeConnectFail(status)
    \/ BridgeDrainOk
    \/ BridgeReset
    \/ BridgeReadTimeout
    \/ BridgeRead
    \/ \E status \in {200, 502} : BridgeClosed(status)

SpecBridge == InitBridge /\ [][NextBridge]_vars

(***************************************************************************)
(* Properties.                                                             *)
(***************************************************************************)
\* a read that passes the frame codec and DPI
WellFormed(buf) ==
    /\ parse_frame(buf).error = ""
    /\ validate_frame_integrity(parse_frame(buf).frame).valid

\* the 9 byte exception reply 0x01 to the request bytes buf, written out
ExceptionFor(buf) ==
    << buf[1], buf[2], 0, 0, 0, 3, buf[7], buf[8] + 128, 1 >>

\* S2's reply: 00 02 00 00 00 03 01 86 01
WriteFrameException == << 0, 2, 0, 0, 0, 3, 1, 134, 1 >>

\* the write codes the shipped policy blocks
ShippedBlockedCodes == {5, 6, 15, 16}

\* C1: under the shipped policy no buffer written to the upstream socket
\* carries function code 0x05, 0x06, 0x0F or 0x10, and every read of a
\* well-formed frame with such a code writes nothing upstream and writes the
\* 9 byte exception reply to the client, however often it is repeated.
WritesNeverReachPlc ==
    [][\A c \in ClientAddrs :
          /\ upIn'[c] # upIn[c]
             => \A i \in DOMAIN upIn'[c] :
                   upIn'[c][i][8] \notin ShippedBlockedCodes
          /\ Len(log') > Len(log)
             => \A buf \in ClientInputs \cup WriteInputs :
                   ( /\ WellFormed(buf)
                     /\ buf[8] \in ShippedBlockedCodes
                     /\ ClientRead(c, buf) )
                   => /\ upIn' = upIn
                      /\ toClient'[c] =
                            Append(toClient[c], ExceptionFor(buf))]_vars

\* C1 witness: one connection replayed the S2 write and got two exceptions
WriteReplayAnswered ==
    \E c \in ClientAddrs :
        /\ toClient[c] = << WriteFrameException, WriteFrameException >>
        /\ upIn[c] = << >>

\* C2: whatever is written upstream is the buffer just read from the client,
\* unmodified, and whatever is relayed to the client in the ALLOW branch is
\* exactly the bytes taken from the upstream socket.
TransparencyOnAllow ==
    [][\A c \in ClientAddrs :
          /\ upIn'[c] # upIn[c]
             => \E buf \in ClientInputs :
                   ClientRead(c, buf) /\ upIn'[c] = Append(upIn[c], buf)
          /\ (pc[c] = "plc_read" /\ toClient'[c] # toClient[c])
             => /\ Len(toClient'[c]) = Len(toClient[c]) + 1
                /\ SubSeq(toClient'[c], 1, Len(toClient[c])) = toClient[c]
                /\ Last(toClient'[c]) \o upBuf'[c] = upBuf[c]]_vars

\* C2 witness: S1 was forwarded verbatim and the PLC's reply relayed verbatim
ReadRelayed ==
    \E c \in ClientAddrs :
        /\ upIn[c] = << ReadFrame >>
        /\ toClient[c] = << << 0, 1, 0, 0, 0, 5, 1, 3, 2, 171, 205 >> >>

\* the reads the frame codec rejects, and the error it reports for each
CodecFailures == {ShortFrame, BadProtocolFrame, LengthMismatchFrame}

CodecError(buf) ==
    IF buf = ShortFrame THEN "TooShort"
    ELSE IF buf = BadProtocolFrame THEN "InvalidProtocolID"
    ELSE "LengthMismatch"

\* C3: a read that fails the frame codec writes nothing to either socket,
\* adds one to the error counters only, appends exactly one ERROR record and
\* returns to the head of the relay loop with both sockets untouched.
NoReplyOnStructuralError ==
    [][\A c \in ClientAddrs : \A buf \in CodecFailures :
          (Len(log') > Len(log) /\ ClientRead(c, buf))
          => /\ toClient' = toClient
             /\ upIn' = upIn
             /\ totals' = [totals EXCEPT !.requests = @ + 1, !.errors = @ + 1]
             /\ connections'[c] =
                   [connections[c] EXCEPT !.requests = @ + 1, !.errors = @ + 1]
             /\ log' = Append(log,
                   [transaction_id |-> 0, unit_id |-> 0,
                    function_code |-> 0, reason |-> CodecError(buf),
                    action |-> "ERROR", source_ip |-> c[1],
                    source_port |-> c[2], data_length |-> 0])
             /\ clientSock' = clientSock
             /\ running => (pc'[c] = "reading" /\ plcSock' = plcSock)]_vars

\* C3 witness: the three codec failures were dropped and the loop reads on
CodecFailuresDropped ==
    \E c \in ClientAddrs :
        /\ pc[c] = "reading"
        /\ {log[i].reason : i \in DOMAIN log} =
              {"TooShort", "InvalidProtocolID", "LengthMismatch"}
        /\ totals.errors = 3
        /\ toClient[c] = << >>
        /\ upIn[c] = << >>
        /\ clientSock[c] = "open"
        /\ plcSock[c] = "open"

\* C4: a BLOCK decision adds one to blocked, appends one BLOCK record,
\* writes the 9 byte exception reply to the client and nothing upstream, and
\* leaves both sockets open; when the write has drained the loop reads on.
\* The S2 request is answered 00 02 00 00 00 03 01 86 01.
BlockWritesException ==
    [][\A c \in ClientAddrs :
          /\ \A buf \in ClientInputs :
                ( /\ Len(log') > Len(log)
                  /\ Last(log').action = "BLOCK"
                  /\ ClientRead(c, buf) )
                => /\ totals' = [totals EXCEPT !.requests = @ + 1,
                                               !.blocked = @ + 1]
                   /\ Len(log') = Len(log) + 1
                   /\ SubSeq(log', 1, Len(log)) = log
                   /\ Len(toClient'[c]) = Len(toClient[c]) + 1
                   /\ Last(toClient'[c]) = ExceptionFor(buf)
                   /\ Len(Last(toClient'[c])) = 9
                   /\ upIn' = upIn
                   /\ pc'[c] = "block_drain"
                   /\ clientSock' = clientSock
                   /\ plcSock' = plcSock
          /\ ( /\ Len(log') > Len(log)
                /\ policy = DefaultPolicy
                /\ ClientRead(c, WriteFrame) )
             => /\ Last(log').action = "BLOCK"
                /\ Last(toClient'[c]) = WriteFrameException
          /\ (pc[c] = "block_drain" /\ ClientDrainOk(c) /\ running)
             => /\ pc'[c] = "reading"
                /\ clientSock' = clientSock
                /\ plcSock' = plcSock]_vars

\* C4 witness: S2 was answered and the session is reading again
WriteBlockedSessionOpen ==
    \E c \in ClientAddrs :
        /\ toClient[c] = << WriteFrameException >>
        /\ upIn[c] = << >>
        /\ totals.blocked = 1
        /\ pc[c] = "reading"
        /\ clientSock[c] = "open"
        /\ plcSock[c] = "open"

\* the records of one connection that were decided (ALLOW or BLOCK), in order
Decided(c) ==
    SelectSeq(log, LAMBDA r : /\ r.source_ip = c[1]
                              /\ r.source_port = c[2]
                              /\ r.action \in {"ALLOW", "BLOCK"})

\* the exception reply 0x01 to the request a record describes
ExceptionOf(r) ==
    << Hi(r.transaction_id), Lo(r.transaction_id), 0, 0, 0, 3, r.unit_id,
       r.function_code + 128, 1 >>

\* stands for a relayed buffer in the expected replies
Relayed == << >>

\* the replies a connection owes its client: an exception for each blocked
\* request, a relayed buffer for each allowed request whose upstream read
\* returned data, nothing for one whose read timed out, reached end of stream
\* or has not ended (reads is how the upstream reads ended, in order)
RECURSIVE Owed(_, _)
Owed(recs, reads) ==
    IF recs = << >> THEN << >>
    ELSE IF Head(recs).action = "BLOCK"
    THEN << ExceptionOf(Head(recs)) >> \o Owed(Tail(recs), reads)
    ELSE IF reads = << >> THEN Owed(Tail(recs), reads)
    ELSE (IF Head(reads) = "data" THEN << Relayed >> ELSE << >>)
         \o Owed(Tail(recs), Tail(reads))

\* the number of allowed requests of one connection
AllowedCount(c) == Len(SelectSeq(Decided(c), LAMBDA r : r.action = "ALLOW"))

\* C5 as stated: whenever a connection is back at its read, the client has
\* received exactly one reply per decided request, in arrival order: the
\* exception for a blocked request, a reply carrying the transaction id of
\* the request for an allowed one.
SequentialPairing ==
    \A c \in ClientAddrs :
        pc[c] = "reading"
        => /\ Len(toClient[c]) = Len(Decided(c))
           /\ \A i \in DOMAIN toClient[c] :
                 IF Decided(c)[i].action = "BLOCK"
                 THEN toClient[c][i] = ExceptionOf(Decided(c)[i])
                 ELSE /\ Len(toClient[c][i]) >= 8
                      /\ BE16(toClient[c][i][1], toClient[c][i][2]) =
                            Decided(c)[i].transaction_id
                      /\ toClient[c][i][8] = Decided(c)[i].function_code

\* C5 amended: the replies of a connection are written in request arrival
\* order; each blocked request gets exactly one exception reply; each allowed
\* request gets exactly one relayed buffer when its upstream read returned
\* data and none when that read timed out or reached end of stream; and when
\* the connection is back at its read every allowed request has had its read.
RepliesInOrder ==
    \A c \in ClientAddrs :
        LET owed == Owed(Decided(c), upReads[c])
        IN  /\ Len(toClient[c]) = Len(owed)
            /\ \A i \in DOMAIN owed :
                  IF owed[i] = Relayed
                  THEN toClient[c][i] # << >>
                  ELSE toClient[c][i] = owed[i]
            /\ Len(upReads[c]) <= AllowedCount(c)
            /\ pc[c] = "reading" => Len(upReads[c]) = AllowedCount(c)

\* C5 witness: a read timed out, the next was relayed, a write was blocked,
\* and the client holds two replies for three decided requests
TimeoutRelayBlock ==
    \E c \in ClientAddrs :
        /\ pc[c] = "reading"
        /\ upReads[c] = << "timeout", "data" >>
        /\ Len(Decided(c)) = 3
        /\ Len(toClient[c]) = 2
        /\ toClient[c][2] = WriteFrameException

\* the ALLOW decisions of a source that a limiter check at the current clock
\* still counts
LiveAllows(ip) ==
    Cardinality({i \in DOMAIN allowedAt[ip] : allowedAt[ip][i] >= now - Window})

\* no second (any TicksPerSecond + 1 consecutive clock readings) holds more
\* than rate_limit ALLOW decisions of one source
RateBound ==
    \A ip \in ClientIPs : \A t \in 0 .. MaxTime :
        Cardinality({i \in DOMAIN allowedAt[ip] :
                        allowedAt[ip][i] \in t .. (t + TicksPerSecond)})
            <= policy.rate_limit

\* C6: within any second the ALLOW decisions of one source IP, summed over all
\* its connections, never exceed rate_limit; a request changes the limiter
\* state and the ALLOW history of its own IP only, and an allowed read of a
\* source that has budget left is allowed whatever other sources have sent.
RateLimitBound ==
    [][/\ allowedAt' # allowedAt => RateBound'
       /\ Len(log') > Len(log)
          => \A c \in ClientAddrs : \A buf \in FloodInputs :
                ClientRead(c, buf)
                => /\ \A ip \in ClientIPs \ {c[1]} :
                         /\ windows'[ip] = windows[ip]
                         /\ allowedAt'[ip] = allowedAt[ip]
                   /\ LiveAllows(c[1]) < policy.rate_limit
                      => /\ Last(log').action = "ALLOW"
                         /\ allowedAt'[c[1]] = Append(allowedAt[c[1]], now)]_vars

\* C6 witness: two connections of one IP in the same second: the first used
\* the budget, the second was refused
BudgetSharedAcrossConnections ==
    /\ Len(log) = RateLimit + 1
    /\ \A i \in DOMAIN log : log[i].source_ip = "10.0.0.5"
    /\ log[1].source_port # Last(log).source_port
    /\ \A i \in 1 .. RateLimit : log[i].action = "ALLOW"
    /\ Last(log).reason = "RateLimited"
    /\ Len(allowedAt["10.0.0.5"]) = RateLimit

\* every ALLOW decision of a source so far is less than a second old
InBurst(ip) ==
    \A i \in DOMAIN allowedAt[ip] : now - allowedAt[ip][i] < TicksPerSecond

\* C7: in a burst of allowed reads of one source that starts on an empty
\* window and lasts less than a second, the first rate_limit reads are
\* forwarded upstream and every later one is logged BLOCK / RateLimited,
\* answered with exception reply 0x01 and not forwarded.
RateLimitTrip ==
    [][Len(log') > Len(log)
       => \A c \in ClientAddrs :
             (InBurst(c[1]) /\ ClientRead(c, ReadFrame))
             => IF Len(allowedAt[c[1]]) < policy.rate_limit
                THEN /\ Last(log').action = "ALLOW"
                     /\ upIn'[c] = Append(upIn[c], ReadFrame)
                     /\ toClient' = toClient
                ELSE /\ Last(log').action = "BLOCK"
                     /\ Last(log').reason = "RateLimited"
                     /\ toClient'[c] =
                           Append(toClient[c], ExceptionFor(ReadFrame))
                     /\ upIn' = upIn]_vars

\* C7 witness: rate_limit reads were forwarded and the next one, in the same
\* second, was refused with the exception reply
FloodTripped ==
    \E c \in ClientAddrs :
        /\ InBurst(c[1])
        /\ Len(allowedAt[c[1]]) = RateLimit
        /\ Len(log) = RateLimit + 1
        /\ Last(log).reason = "RateLimited"
        /\ toClient[c] # << >>
        /\ Last(toClient[c]) = ExceptionFor(ReadFrame)

\* the write function codes of rule 1
RuleOneCodes == {5, 6, 15, 16, 22}

\* C8: the decision logged for a request is that of the first rule that
\* fires: (1) a write code from a source outside write_allowed_ips is
\* BLOCK / SourceDenied, (2) a code of the blocked set is BLOCK / BlockedFC,
\* (3) a code of the allowed set is ALLOW, (4) anything else is
\* BLOCK / UnknownFC, each whatever the later rules would say; the limiter
\* state changes in case (3) only, where a refusal gives BLOCK / RateLimited.
FirstMatchOrder ==
    [][Len(log') > Len(log)
       => \A c \in ClientAddrs : \A buf \in PolicyInputs :
             ClientRead(c, buf)
             => LET fc == buf[8]
                    r  == Last(log')
                IN  IF fc \in RuleOneCodes /\ c[1] \notin policy.write_allowed_ips
                    THEN /\ r.action = "BLOCK" /\ r.reason = "SourceDenied"
                         /\ windows' = windows
                    ELSE IF fc \in policy.blocked_function_codes
                    THEN /\ r.action = "BLOCK" /\ r.reason = "BlockedFC"
                         /\ windows' = windows
                    ELSE IF fc \in policy.allowed_function_codes
                    THEN IF LiveAllows(c[1]) < policy.rate_limit
                         THEN /\ r.action = "ALLOW"
                              /\ windows'[c[1]] # windows[c[1]]
                         ELSE r.action = "BLOCK" /\ r.reason = "RateLimited"
                    ELSE /\ r.action = "BLOCK" /\ r.reason = "UnknownFC"
                         /\ windows' = windows]_vars

\* C8 witness: code 0x06 is in the allowed and in the blocked set; from the
\* source that is not write-exempt it was refused by rule 1, from the exempt
\* source by rule 2
OverlapDecided ==
    /\ policy = OverlapPolicy
    /\ \E i \in DOMAIN log :
          /\ log[i].function_code = 6
          /\ log[i].source_ip = "10.0.0.6"
          /\ log[i].reason = "SourceDenied"
    /\ \E i \in DOMAIN log :
          /\ log[i].function_code = 6
          /\ log[i].source_ip = "10.0.0.5"
          /\ log[i].reason = "BlockedFC"

\* C9 as stated: with write_allowed_ips = {"10.0.0.5"} and the rest of the
\* policy as shipped, the S2 write from 10.0.0.5 is forwarded upstream and
\* the same write from 10.0.0.6 is blocked.
WriteAllowedExemption ==
    [][Len(log') > Len(log)
       => \A c \in ClientAddrs :
             (policy = ExemptPolicy /\ ClientRead(c, WriteFrame))
             => IF c[1] = "10.0.0.5"
                THEN /\ Last(log').action = "ALLOW"
                     /\ upIn'[c] = Append(upIn[c], WriteFrame)
                ELSE /\ Last(log').action = "BLOCK"
                     /\ upIn' = upIn]_vars

\* the record the S2 write of connection c leaves, with the given reason
WriteBlockRecord(c, reason) ==
    [transaction_id |-> 2, unit_id |-> 1, function_code |-> 6,
     reason |-> reason, action |-> "BLOCK", source_ip |-> c[1],
     source_port |-> c[2], data_length |-> 4]

\* C10 as stated: under the shipped policy the S2 write appends one BLOCK
\* record whose reason is BlockedFC.
WriteLoggedBlockedFC ==
    [][Len(log') > Len(log)
       => \A c \in ClientAddrs :
             (policy = DefaultPolicy /\ ClientRead(c, WriteFrame))
             => log' = Append(log, WriteBlockRecord(c, "BlockedFC"))]_vars

\* C10 amended: under the shipped policy the S2 write appends exactly one
\* record, a BLOCK whose reason is SourceDenied: write_allowed_ips is empty,
\* so rule 1 fires before the blocked set is looked at.
WriteLoggedSourceDenied ==
    [][Len(log') > Len(log)
       => \A c \in ClientAddrs :
             (policy = DefaultPolicy /\ ClientRead(c, WriteFrame))
             => log' = Append(log, WriteBlockRecord(c, "SourceDenied"))]_vars

\* C10 witness: the S2 write is the only request so far and left its record
WriteLoggedOnce ==
    \E c \in ClientAddrs :
        /\ policy = DefaultPolicy
        /\ log = << WriteBlockRecord(c, "SourceDenied") >>
        /\ totals.blocked = 1

RegisterReads == {ReadFrame, ReadInputFrame}

\* C12: under the shipped policy a well-formed register read (0x03 or 0x04)
\* of a source below its rate limit is forwarded upstream unchanged and
\* logged as one ALLOW record, with nothing written to the client; from then
\* until the loop reads again the only thing written to the client is what
\* the upstream read returned, which is the PLC's reply to that read when
\* every earlier upstream read of the session returned data.
ReadsAllowed ==
    [][/\ Len(log') > Len(log)
          => \A c \in ClientAddrs : \A buf \in RegisterReads :
                ( /\ policy = DefaultPolicy
                  /\ LiveAllows(c[1]) < policy.rate_limit
                  /\ ClientRead(c, buf) )
                => /\ upIn'[c] = Append(upIn[c], buf)
                   /\ toClient' = toClient
                   /\ log' = Append(log,
                         [transaction_id |-> BE16(buf[1], buf[2]),
                          unit_id |-> buf[7], function_code |-> buf[8],
                          reason |-> "AllowedFC", action |-> "ALLOW",
                          source_ip |-> c[1], source_port |-> c[2],
                          data_length |-> 4])
       /\ toClient' # toClient
          => \A c \in ClientAddrs :
                ( /\ pc[c] \in {"plc_drain", "plc_read", "client_drain"}
                  /\ toClient'[c] # toClient[c] )
                => /\ pc[c] = "plc_read"
                   /\ toClient'[c] = Append(toClient[c], Take(upBuf[c], MaxADU))
                   /\ ( /\ upAnswered[c] = Len(upIn[c])
                        /\ Len(upReads[c]) = Len(upIn[c]) - 1
                        /\ \A i \in DOMAIN upReads[c] : upReads[c][i] = "data" )
                      => Last(toClient'[c]) = PlcResponse(Last(upIn[c]))]_vars

\* C12 witness: the 0x04 read was forwarded, logged and answered by the PLC
InputRegistersRead ==
    \E c \in ClientAddrs :
        /\ upIn[c] = << ReadInputFrame >>
        /\ toClient[c] = << PlcResponse(ReadInputFrame) >>
        /\ Len(log) = 1
        /\ log[1].action = "ALLOW"
        /\ log[1].function_code = 4
        /\ pc[c] = "reading"

\* a byte string the MBAP rules call well-formed
WellFormedMBAP(B) ==
    /\ Len(B) >= 8
    /\ Len(B) <= 260
    /\ B[3] = 0 /\ B[4] = 0
    /\ B[5] * 256 + B[6] = Len(B) - 6

\* C13: parse_frame accepts a byte string B exactly when B has 8 to 260
\* bytes, protocol id 0 and a declared length of Len(B) - 6; it then returns
\* raw = B, the header fields decoded big endian, function_code = B[8] and
\* data = the bytes after it (1-based); any other B fails with TooShort (when
\* shorter than 8 bytes), InvalidProtocolID or LengthMismatch and no frame.
FrameRoundTrip ==
    \A i \in DOMAIN calls :
        calls[i].op = "parse"
        => LET B == calls[i].data
               f == calls[i].frame
           IN  IF WellFormedMBAP(B)
               THEN /\ calls[i].error = ""
                    /\ f.raw = B
                    /\ f.transaction_id = B[1] * 256 + B[2]
                    /\ f.protocol_id = 0
                    /\ f.length = Len(B) - 6
                    /\ f.unit_id = B[7]
                    /\ f.function_code = B[8]
                    /\ f.data = SubSeq(B, 9, Len(B))
               ELSE /\ f = NoFrame
                    /\ calls[i].error \in
                          {"TooShort", "InvalidProtocolID", "LengthMismatch"}
                    /\ Len(B) < 8 => calls[i].error = "TooShort"

\* C13 witness: a frame with transaction id 0x0102 and unit 255 was accepted
\* and decoded
BigEndianDecoded ==
    /\ Len(calls) = 1
    /\ calls[1].error = ""
    /\ calls[1].data = << 1, 2, 0, 0, 0, 3, 255, 6, 131 >>
    /\ calls[1].frame.transaction_id = 258
    /\ calls[1].frame.data = << 131 >>

\* the PDU of a frame: the function code and the data after it
Pdu(f) == << f.function_code >> \o f.data

\* C14 as stated: every accepted frame has at most 260 bytes, a declared
\* length of at least 2 that is 1 + Len(pdu), protocol id 0, and
\* 4 + length = Len(raw).
FrameInvariantsFour ==
    \A i \in DOMAIN calls :
        (calls[i].op = "parse" /\ calls[i].error = "")
        => LET f == calls[i].frame
           IN  /\ Len(f.raw) <= 260
               /\ 4 + f.length = Len(f.raw)
               /\ f.length >= 2
               /\ f.protocol_id = 0
               /\ f.length = 1 + Len(Pdu(f))

\* C14 amended: every accepted frame has at most 260 bytes, a declared
\* length of at least 2 that is 1 + Len(pdu), protocol id 0, and
\* 6 + length = Len(raw): the length field counts the unit id and the PDU,
\* that is everything after the first 6 bytes.
FrameInvariants ==
    \A i \in DOMAIN calls :
        (calls[i].op = "parse" /\ calls[i].error = "")
        => LET f == calls[i].frame
           IN  /\ Len(f.raw) <= 260
               /\ 6 + f.length = Len(f.raw)
               /\ f.length >= 2
               /\ f.protocol_id = 0
               /\ f.length = 1 + Len(Pdu(f))
               /\ Len(f.raw) = 7 + Len(Pdu(f))

\* C14 witness: a frame of exactly 260 bytes was accepted
LargestFrameAccepted ==
    /\ Len(calls) = 1
    /\ calls[1].error = ""
    /\ Len(calls[1].frame.raw) = 260
    /\ calls[1].frame.length = 254

\* C15: create_exception_response(F, c) is 9 bytes: the transaction id and
\* protocol id of F, length 3, the unit id of F, the function code of F with
\* its high bit set, and c; the BLOCK branch calls it with c = 0x01.
ExceptionWellFormed ==
    \A i \in DOMAIN calls :
        calls[i].op \in {"exception", "block"}
        => LET B == calls[i].data
               out == calls[i].out
           IN  /\ Len(out) = 9
               /\ out = << B[1], B[2], B[3], B[4], 0, 3, B[7],
                           IF B[8] >= 128 THEN B[8] ELSE B[8] + 128,
                           calls[i].code >>
               /\ out[8] >= 128
               /\ calls[i].op = "block" => out[9] = 1

\* C15 witness: the BLOCK branch's reply to a frame with transaction id
\* 0x0102, unit 255 and function code 6
BlockReplyBuilt ==
    /\ Len(calls) = 2
    /\ calls[2].op = "block"
    /\ calls[2].data = << 1, 2, 0, 0, 0, 3, 255, 6, 131 >>
    /\ calls[2].out = << 1, 2, 0, 0, 0, 3, 255, 134, 1 >>

\* the positions of handle_client inside its `while self.running` loop
LoopStates == {"reading", "plc_drain", "plc_read", "client_drain", "block_drain"}

\* C16: a session that reached Relaying closes both sockets on every way out
\* of its loop: the step that leaves the loop closes the upstream socket,
\* the next step closes the client socket whatever became of the first
\* close, and the handler ends only after both.
BothSocketsClosed ==
    [][\A c \in ClientAddrs :
          pc'[c] # pc[c]
          => /\ (pc[c] \in LoopStates /\ pc'[c] \notin LoopStates)
                => (pc'[c] = "close_plc" /\ plcSock'[c] = "closed")
             /\ pc[c] = "close_plc"
                => /\ pc'[c] = "close_client"
                   /\ clientSock'[c] = "closed"
                   /\ plcSock'[c] = "closed"
             /\ pc[c] = "close_client"
                => /\ pc'[c] = "closed"
                   /\ clientSock'[c] = "closed"
                   /\ plcSock'[c] = "closed"
             /\ (pc'[c] = "closed" /\ plcSock[c] # "none")
                => (clientSock'[c] = "closed" /\ plcSock'[c] = "closed")]_vars

\* C16 witness: a session that relayed a reply and then read the upstream's
\* end of stream has ended with both sockets closed
RelayedSessionClosed ==
    \E c \in ClientAddrs :
        /\ pc[c] = "closed"
        /\ Len(upReads[c]) = 2
        /\ upReads[c][1] = "data"
        /\ upReads[c][2] = "eof"
        /\ Len(toClient[c]) = 1
        /\ clientSock[c] = "closed"
        /\ plcSock[c] = "closed"

\* C17: a handler that has ended has removed its per-connection statistics
\* entry, whichever way it ended (a failed upstream connect included).
StatsRemovedOnExit ==
    \A c \in ClientAddrs :
        pc[c] = "closed" => connections[c] = NoStats

\* C18: when the upstream has closed after a successful forward and the read
\* that follows the next forwarded frame finds the end of the stream, the
\* session terminates.
UpstreamCloseEndsSession ==
    [][\A c \in ClientAddrs :
          (/\ pc[c] = "plc_read"
           /\ pc'[c] # "plc_read"
           /\ plcSock[c] = "eof"
           /\ upBuf[c] = << >>
           /\ \E i \in DOMAIN upReads[c] : upReads[c][i] = "data")
          => pc'[c] = "close_plc"]_vars

\* C19: a failed upstream connect, a socket error or an exception in one
\* session changes neither the listener nor any other session.
SessionIsolation ==
    [][\A c \in ClientAddrs :
          (pc'[c] # pc[c] /\ (DialFail(c) \/ SocketError(c)))
          => /\ running' = running
             /\ \A d \in ClientAddrs \ {c} :
                    /\ pc'[d] = pc[d]
                    /\ clientSock'[d] = clientSock[d]
                    /\ plcSock'[d] = plcSock[d]
                    /\ connections'[d] = connections[d]
                    /\ upIn'[d] = upIn[d]
                    /\ toClient'[d] = toClient[d]]_vars

\* C19 witness: one session failed to reach the PLC; the listener still runs
\* and the other session, both sockets open, has been answered
OtherSessionServed ==
    \E c, d \in ClientAddrs :
        /\ c # d
        /\ pc[c] = "closed"
        /\ plcSock[c] = "none"
        /\ running
        /\ pc[d] = "reading"
        /\ clientSock[d] = "open"
        /\ plcSock[d] = "open"
        /\ Len(toClient[d]) = 1

\* C20: a non-empty client read appends exactly one log record, and its
\* action says what was done with the frame: ALLOW exactly when the frame
\* was written upstream, BLOCK exactly when an exception reply was written
\* to the client, ERROR exactly when nothing was written to either side.
\* Nothing else appends a record or writes upstream, and the only other
\* write to the client is the relay of the PLC's bytes after an ALLOW.
LogMatchesOutcome ==
    [][(log' # log \/ upIn' # upIn \/ toClient' # toClient)
       => /\ \E c \in ClientAddrs :
                \/ \E buf \in ClientInputs : ClientRead(c, buf)
                \/ /\ PlcRead(c)
                   /\ log' = log
                   /\ upIn' = upIn
                   /\ log # << >>
                   /\ Last(log).action = "ALLOW"
                   /\ Last(toClient'[c])[8] < 128
          /\ \A c \in ClientAddrs : \A buf \in ClientInputs :
                ClientRead(c, buf)
                => LET a == Last(log').action
                       up == upIn'[c] # upIn[c]
                       down == toClient'[c] # toClient[c]
                   IN  /\ Len(log') = Len(log) + 1
                       /\ SubSeq(log', 1, Len(log)) = log
                       /\ a \in {"ALLOW", "BLOCK", "ERROR"}
                       /\ (a = "ALLOW") = up
                       /\ up => (upIn'[c] = Append(upIn[c], buf) /\ ~down)
                       /\ (a = "BLOCK") = down
                       /\ down => (/\ Len(toClient'[c]) = Len(toClient[c]) + 1
                                   /\ Len(Last(toClient'[c])) = 9
                                   /\ Last(toClient'[c])[8] >= 128)
                       /\ (a = "ERROR") = (~up /\ ~down)]_vars

\* C20 witness: three frames were read and left an ERROR, a BLOCK and an
\* ALLOW record, in that order
ThreeOutcomesLogged ==
    /\ Len(log) = 3
    /\ log[1].action = "ERROR"
    /\ log[2].action = "BLOCK"
    /\ log[3].action = "ALLOW"
    /\ \E c \in ClientAddrs : Len(upIn[c]) = 1 /\ Len(toClient[c]) >= 1

\* C21: the log file holds only complete records: every line of it, the one
\* being written included, is made of the pieces of one record in their
\* order, and pieces of two records never share a line.
NoInterleavedRecords ==
    \A i \in DOMAIN sink.file :
        /\ sink.file[i].part = ((i - 1) % LineParts) + 1
        /\ sink.file[i].part > 1
           => /\ sink.file[i].w = sink.file[i - 1].w
              /\ sink.file[i].n = sink.file[i - 1].n

\* C21 witness: three proxies logged at once and the file holds their three
\* complete records in an order other than that of the calls
RecordsOutOfCallOrder ==
    /\ Len(sink.file) = 4 * LineParts
    /\ sink.mutex = "free"
    /\ sink.file[LineParts + 1].n = 3
    /\ sink.file[2 * LineParts + 1].n = 1
    /\ sink.file[3 * LineParts + 1].n = 2
    /\ Cardinality({sink.file[i].w : i \in DOMAIN sink.file}) = 4

\* C22: when the upstream connect times out or is refused the handler logs
\* an error, closes the client socket and ends, having read no client frame
\* and written no byte to the client, and no request counter changes, then
\* or later on account of that session.
DialFailureEndsSession ==
    [][\A c \in ClientAddrs :
          /\ DialFail(c)
             => /\ lastNotice'[c][1] = "ERROR"
                /\ lastNotice[c][1] # "ERROR"
                /\ clientSock'[c] = "closed"
                /\ pc'[c] = "closed"
                /\ plcSock'[c] = "none"
                /\ toClient[c] = << >> /\ toClient'[c] = << >>
                /\ upIn[c] = << >> /\ upIn'[c] = << >>
                /\ connections[c] = NewStats
                /\ connections' = connections
                /\ totals' = totals
                /\ log' = log
          /\ (pc[c] = "closed" /\ plcSock[c] = "none")
             => /\ pc'[c] = "closed"
                /\ toClient'[c] = toClient[c]
                /\ upIn'[c] = upIn[c]
                /\ connections'[c] = connections[c]]_vars

\* C22 witness: a session ended by a failed dial, its error logged, its
\* client socket closed, and no counter moved
DialFailed ==
    \E c \in ClientAddrs :
        /\ pc[c] = "closed"
        /\ plcSock[c] = "none"
        /\ clientSock[c] = "closed"
        /\ lastNotice[c] = << "ERROR", "connecting to PLC" >>
        /\ totals = NewStats
        /\ toClient[c] = << >>

\* C23: when the PLC does not answer a forwarded request within the reply
\* timeout, a warning is logged, nothing is written to the client, both
\* sockets stay open and, unless the firewall is stopping, the proxy reads
\* the next client request.
ReplyTimeoutRecoverable ==
    [][\A c \in ClientAddrs :
          PlcTimeout(c)
          => /\ lastNotice'[c] = << "WARNING", "Timeout waiting for PLC response" >>
             /\ toClient' = toClient
             /\ upIn' = upIn
             /\ clientSock'[c] = "open" /\ clientSock[c] = "open"
             /\ running => (plcSock'[c] = "open" /\ pc'[c] = "reading")]_vars

\* C23 witness: after a reply timeout the same session forwarded the next
\* request and relayed a reply, both sockets open
ServedAfterTimeout ==
    \E c \in ClientAddrs :
        /\ Len(upReads[c]) = 2
        /\ upReads[c][1] = "timeout"
        /\ upReads[c][2] = "data"
        /\ Len(upIn[c]) = 2
        /\ Len(toClient[c]) = 1
        /\ clientSock[c] = "open"
        /\ plcSock[c] = "open"
        /\ lastNotice[c][1] = "WARNING"

\* C24 as stated: a session waiting for its client is eventually closed,
\* because the idle timeout of the client read expires and closes it.
IdleTimeoutClosesSession ==
    \A c \in ClientAddrs : (pc[c] = "reading") ~> (pc[c] = "closed")

\* C24 amended: an idle timeout only re-tests self.running: while the
\* firewall runs the session stays in the loop with both sockets as they
\* were and reads again, and once the firewall is stopping the session is
\* closed; client end-of-stream closes the session: the loop is left, the
\* upstream is closed and the handler goes on to close the client and end.
IdleTimeoutKeepsSession ==
    /\ [][\A c \in ClientAddrs :
             /\ ClientIdleTimeout(c)
                => IF running
                   THEN /\ pc'[c] = "reading"
                        /\ clientSock'[c] = clientSock[c]
                        /\ plcSock'[c] = plcSock[c]
                   ELSE /\ pc'[c] = "close_plc"
                        /\ plcSock'[c] = "closed"
             /\ ClientEOF(c)
                => (pc'[c] = "close_plc" /\ plcSock'[c] = "closed")]_vars
    /\ \A c \in ClientAddrs :
          (pc[c] = "close_plc")
             ~> (/\ pc[c] = "closed"
                 /\ clientSock[c] = "closed"
                 /\ plcSock[c] = "closed")

\* C24 witness: a session that has answered a request waits for its client
\* with both sockets open while the firewall runs: idle timeouts that
\* expire here leave it as it is
IdleSessionOpen ==
    \E c \in ClientAddrs :
        /\ running
        /\ pc[c] = "reading"
        /\ totals.requests = MaxFlood
        /\ clientSock[c] = "open"
        /\ plcSock[c] = "open"
        /\ Len(toClient[c]) = MaxFlood

\* C25: a client idle timeout or an upstream reply timeout of a running
\* firewall leaves the session in its loop, reading, with both sockets open;
\* nothing is written to either socket and no counter changes.
TimeoutsRecoverable ==
    [][\A c \in ClientAddrs :
          (running /\ (ClientIdleTimeout(c) \/ PlcTimeout(c)))
          => /\ pc'[c] = "reading"
             /\ clientSock'[c] = "open"
             /\ plcSock'[c] = "open"
             /\ clientSock' = clientSock
             /\ plcSock' = plcSock
             /\ toClient' = toClient
             /\ upIn' = upIn
             /\ totals' = totals
             /\ connections' = connections
             /\ windows' = windows
             /\ log' = log]_vars

\* C25 witness: the only request so far was forwarded and timed out; the
\* session reads again, sockets open, one request counted, none failed
TimedOutSessionReading ==
    \E c \in ClientAddrs :
        /\ running
        /\ pc[c] = "reading"
        /\ upReads[c] = << "timeout" >>
        /\ totals = [requests |-> 1, allowed |-> 1, blocked |-> 0, errors |-> 0]
        /\ connections[c] = totals
        /\ toClient[c] = << >>
        /\ clientSock[c] = "open"
        /\ plcSock[c] = "open"

\* C26 as stated: once the firewall is stopping, the next step of a proxy
\* that is suspended in its relay loop leaves the loop.
ShutdownAtNextSuspension ==
    [][\A c \in ClientAddrs :
          (~running /\ pc[c] \in LoopStates /\ pc'[c] # pc[c])
          => pc'[c] = "close_plc"]_vars

\* C26 amended: once the firewall is stopping it stays so and accepts no
\* connection; a proxy in its relay loop finishes at most the request it is
\* processing or has just read and never goes back to reading, or leaves at
\* its next suspension point when its task is cancelled; eventually no
\* handler is left, and those that had an upstream socket have closed both.
ShutdownClosesSessions ==
    /\ [][~running
          => /\ ~running'
             /\ \A c \in ClientAddrs :
                   /\ pc[c] = "none" => pc'[c] = "none"
                   /\ pc'[c] # pc[c] => pc'[c] # "reading"
                   /\ (pc[c] \in LoopStates /\ pc'[c] \notin LoopStates)
                      => (pc'[c] = "close_plc" /\ plcSock'[c] = "closed")]_vars
    /\ ~running
          ~> \A c \in ClientAddrs :
                /\ pc[c] \in {"none", "closed"}
                /\ plcSock[c] # "none"
                   => (clientSock[c] = "closed" /\ plcSock[c] = "closed")

\* C26 witness: the firewall was stopped and the session that had forwarded
\* a request is over, both sockets closed
StoppedAndClosed ==
    /\ ~running
    /\ \E c \in ClientAddrs :
          /\ pc[c] = "closed"
          /\ Len(upIn[c]) >= 1
          /\ clientSock[c] = "closed"
          /\ plcSock[c] = "closed"
    /\ \A c \in ClientAddrs : pc[c] \in {"none", "closed"}

\* C27: a call of evaluate decided BLOCK by the source rule, the blocked set
\* or the unknown-code rule leaves every rate window as it was; a call
\* denied by the rate limiter only drops expired timestamps and appends
\* none; a timestamp is added to windows[src], and to no other window,
\* exactly when the call is decided ALLOW.
BlockedSpendNoBudget ==
    [][Len(calls') > Len(calls)
       => LET r == Last(calls')
              kept == SelectSeq(windows[r.src],
                                LAMBDA ts : ts >= now - Window)
          IN  /\ \A ip \in ClientIPs \ {r.src} : windows'[ip] = windows[ip]
              /\ r.reason \in {"SourceDenied", "BlockedFC", "UnknownFC"}
                 => windows' = windows
              /\ r.reason = "RateLimited"
                 => /\ ~r.is_allowed
                    /\ windows'[r.src] = kept
                    /\ Len(kept) >= policy.rate_limit
              /\ r.is_allowed => windows'[r.src] = Append(kept, now)
              /\ Len(SelectSeq(windows'[r.src], LAMBDA ts : ts = now))
                 = Len(SelectSeq(windows[r.src], LAMBDA ts : ts = now))
                   + (IF r.is_allowed THEN 1 ELSE 0)]_vars

\* C27 witness: one source was allowed once, then denied by the limiter,
\* then blocked by a policy rule, and its window holds the one timestamp of
\* the allowed call
BudgetKeptOnDeny ==
    /\ Len(calls) = 3
    /\ calls[1].is_allowed
    /\ calls[2].reason = "RateLimited"
    /\ calls[3].reason \in {"SourceDenied", "BlockedFC", "UnknownFC"}
    /\ calls[2].src = calls[1].src
    /\ calls[3].src = calls[1].src
    /\ windows[calls[1].src] = << calls[1].time >>

\* a well-formed read whose function code is in neither set of the policy
Unlisted(buf) ==
    /\ WellFormed(buf)
    /\ buf[8] \notin policy.allowed_function_codes
                     \cup policy.blocked_function_codes

\* what process_request does with a blocked read buf of connection c: one
\* BLOCK record, the exception reply 0x01 to the client, nothing upstream,
\* the blocked counters incremented
BlockedStep(c, buf) ==
    /\ Len(log') = Len(log) + 1
    /\ Last(log').action = "BLOCK"
    /\ Last(log').transaction_id = BE16(buf[1], buf[2])
    /\ Last(log').function_code = buf[8]
    /\ toClient'[c] = Append(toClient[c], ExceptionFor(buf))
    /\ upIn' = upIn
    /\ totals'.blocked = totals.blocked + 1
    /\ totals'.errors = totals.errors
    /\ totals'.allowed = totals.allowed

\* C28 as stated: every well-formed read whose function code is in neither
\* the allowed nor the blocked set is decided BLOCK with category UnknownFC,
\* logged as BLOCK, answered with exception reply 0x01 and not forwarded.
UnlistedCodeIsUnknownFC ==
    [][\A c \in ClientAddrs : \A buf \in UnknownInputs :
          (Unlisted(buf) /\ ClientRead(c, buf))
          => (BlockedStep(c, buf) /\ Last(log').reason = "UnknownFC")]_vars

\* C28: a well-formed read whose function code is in neither the allowed nor
\* the blocked set is never dropped in silence and never forwarded: it is
\* logged as BLOCK and answered with exception reply 0x01; its category is
\* UnknownFC unless the code is a write code from a source outside
\* write_allowed_ips (0x16 under the shipped policy), which the source rule
\* has already decided SourceDenied. No buffer written upstream carries a
\* code outside the allowed set.
UnknownCodeBlocked ==
    [][/\ \A c \in ClientAddrs : \A buf \in UnknownInputs :
             (Unlisted(buf) /\ ClientRead(c, buf))
             => /\ BlockedStep(c, buf)
                /\ Last(log').reason =
                      IF buf[8] \in WriteCodes
                         /\ c[1] \notin policy.write_allowed_ips
                      THEN "SourceDenied" ELSE "UnknownFC"
       /\ \A c \in ClientAddrs : \A i \in DOMAIN upIn'[c] :
             upIn'[c][i][8] \in policy.allowed_function_codes]_vars

\* C28 witness: 0x17 and an unassigned code were read, both are logged as
\* BLOCK UnknownFC, both exception replies were written and nothing went
\* upstream
UnknownCodesAnswered ==
    \E c \in ClientAddrs :
        /\ Len(log) = 2
        /\ log[1].function_code = 23
        /\ log[2].function_code = 99
        /\ \A i \in 1 .. 2 :
              log[i].action = "BLOCK" /\ log[i].reason = "UnknownFC"
        /\ toClient[c] = << ExceptionFor(ReadWriteRegistersFrame),
                            ExceptionFor(UnassignedFrame) >>
        /\ upIn[c] = << >>

\* a read that parses and fails DPI validation
FailsDPI(buf) ==
    /\ parse_frame(buf).error = ""
    /\ ~validate_frame_integrity(parse_frame(buf).frame).valid

\* C29: when a read parses and fails DPI validation, requests and errors
\* are incremented (globally and for the connection) and no other counter;
\* exactly one record is appended, an ERROR carrying the frame's transaction
\* id, function code and unit id and the DPI engine's reason; nothing is
\* written upstream or to the client; no rate window changes and no ALLOW is
\* counted against the source; both sockets stay as they are and, while the
\* firewall runs, the handler reads the client again.
DpiFailureDropped ==
    [][\A c \in ClientAddrs : \A buf \in ClientInputs :
          (Len(log') > Len(log) /\ FailsDPI(buf) /\ ClientRead(c, buf))
          => LET f == parse_frame(buf).frame
             IN  /\ totals' = [totals EXCEPT !.requests = @ + 1,
                                             !.errors = @ + 1]
                 /\ connections' =
                       [connections EXCEPT ![c].requests = @ + 1,
                                           ![c].errors = @ + 1]
                 /\ log' = Append(log, Last(log'))
                 /\ Last(log').action = "ERROR"
                 /\ Last(log').transaction_id = BE16(buf[1], buf[2])
                 /\ Last(log').function_code = buf[8]
                 /\ Last(log').unit_id = buf[7]
                 /\ Last(log').reason = validate_frame_integrity(f).error
                 /\ Last(log').source_ip = c[1]
                 /\ Last(log').source_port = c[2]
                 /\ f.raw = buf
                 /\ upIn' = upIn
                 /\ toClient' = toClient
                 /\ windows' = windows
                 /\ allowedAt' = allowedAt
                 /\ clientSock' = clientSock
                 /\ running => (pc'[c] = "reading" /\ plcSock' = plcSock)]_vars

\* C29 witness: a WriteSingleRegister with a 2 byte payload was dropped with
\* an ERROR record that names transaction 8, code 0x06 and unit 1, nothing
\* was written to the client, and the S1 read after it was forwarded
DroppedThenServed ==
    \E c \in ClientAddrs :
        /\ Len(log) = 2
        /\ log[1].action = "ERROR"
        /\ log[1].transaction_id = 8
        /\ log[1].function_code = 6
        /\ log[1].unit_id = 1
        /\ log[1].reason = "BadWriteSingleLength"
        /\ log[2].action = "ALLOW"
        /\ upIn[c] = << ReadFrame >>
        /\ toClient[c] = << >>
        /\ totals.errors = 1
        /\ windows[c[1]] = << now >>

\* C30: parse_frame reports the first check that fails, in the order
\* TooShort, InvalidProtocolID, LengthMismatch: fewer than 8 bytes are
\* TooShort whatever they hold; 8 bytes or more with a protocol id other than
\* 0 are InvalidProtocolID whatever length they declare, and the record the
\* proxy logs for them is an ERROR whose reason is InvalidProtocolID, with
\* nothing written to either socket; LengthMismatch is reported only for 8
\* bytes or more with protocol id 0.
ParseCheckOrder ==
    \A i \in DOMAIN calls :
        calls[i].op = "parse"
        => LET B == calls[i].data
               r == process_request(B, "10.0.0.5", 40001, policy, windows, now)
           IN  /\ Len(B) < 8 => calls[i].error = "TooShort"
               /\ (Len(B) >= 8 /\ BE16(B[3], B[4]) # 0)
                  => /\ calls[i].error = "InvalidProtocolID"
                     /\ r.branch = "ERROR"
                     /\ r.record.action = "ERROR"
                     /\ r.record.reason = "InvalidProtocolID"
                     /\ r.upstream = << >>
                     /\ r.client = << >>
               /\ calls[i].error = "LengthMismatch"
                  => (Len(B) >= 8 /\ BE16(B[3], B[4]) = 0)
               /\ calls[i].error = "InvalidProtocolID" => Len(B) >= 8

\* C30 witness: the simulator's malformed packet, which fails both the
\* protocol id check and the length check (2 declared, 6 bytes follow), was
\* reported as InvalidProtocolID
BothFailProtocolReported ==
    /\ Len(calls) = 1
    /\ calls[1].op = "parse"
    /\ calls[1].data = MalformedProtocolFrame
    /\ BE16(calls[1].data[3], calls[1].data[4]) # 0
    /\ BE16(calls[1].data[5], calls[1].data[6]) # Len(calls[1].data) - 6
    /\ calls[1].error = "InvalidProtocolID"

\* the bytes of the buffers in s that were relayed from the upstream, that
\* is all but the 9 byte exception replies the proxy builds itself
RECURSIVE RelayedLen(_)
RelayedLen(s) ==
    IF s = << >> THEN 0
    ELSE (IF Len(Head(s)) = 9 /\ Head(s)[8] >= 128 THEN 0 ELSE Len(Head(s)))
         + RelayedLen(Tail(s))

\* the length of every reply of the PLC
ReplyLen == Len(PlcResponse(ReadFrame))

\* some request forwarded on connection c has no relayed reply yet
ReplyOutstanding(c) == RelayedLen(toClient[c]) < ReplyLen * Len(upIn[c])

\* C31: within one connection, the proxy writes an exception reply it has
\* built to the client only when the reply to every request it forwarded
\* before has been relayed.
NoInjectionWhileOutstanding ==
    [][\A c \in ClientAddrs :
          (/\ Len(toClient'[c]) > Len(toClient[c])
           /\ Len(Last(toClient'[c])) = 9
           /\ Last(toClient'[c])[8] >= 128)
          => ~ReplyOutstanding(c)]_vars

\* proxy c holds the limiter's or the logger's mutex
HoldsMutex(c) == limiterLock = c \/ c \in sink.inside

\* C32: a proxy that is at a suspension point (it waits for a socket or has
\* not been accepted) holds neither the limiter's nor the logger's mutex;
\* while a proxy is between the return of its client read and the first
\* await of the branch it takes, every step is its own (no other proxy
\* moves, writes or logs), and in particular the step after the limiter's
\* check is the append of this request's timestamp to the window it checked.
NoSuspensionHoldingMutex ==
    [][/\ \A c \in ClientAddrs :
             pc'[c] \notin SectionStates
             => (limiterLock' # c /\ c \notin sink'.inside)
       /\ \A c \in ClientAddrs :
             pc[c] \in SectionStates
             => \A d \in ClientAddrs \ {c} :
                   /\ pc'[d] = pc[d]
                   /\ upIn'[d] = upIn[d]
                   /\ toClient'[d] = toClient[d]
                   /\ sink'.pending[d] = sink.pending[d]
                   /\ connections'[d] = connections[d]
       /\ \A c \in ClientAddrs :
             pc[c] = "rate_append"
             => /\ pc'[c] = "rate_done"
                /\ limiterLock = c
                /\ windows' = [windows EXCEPT ![c[1]] = Append(@, now)]
                /\ Len(windows'[c[1]]) <= policy.rate_limit]_vars

\* C32 witness: one proxy waits for its upstream write to drain while the
\* other, resumed by the loop, is between the limiter's check and the append
\* and holds the limiter's mutex
SuspendedWhileOtherChecks ==
    \E c, d \in ClientAddrs :
        /\ pc[c] = "plc_drain"
        /\ ~HoldsMutex(c)
        /\ pc[d] = "rate_append"
        /\ limiterLock = d
        /\ Len(log) = 1

\* requests == allowed + blocked + errors
Balanced(stats) ==
    stats.requests = stats.allowed + stats.blocked + stats.errors

\* stats after one more request that ended in branch br
Counted(stats, br) ==
    [stats EXCEPT !.requests = @ + 1,
                  !.allowed = @ + (IF br = "ALLOW" THEN 1 ELSE 0),
                  !.blocked = @ + (IF br = "BLOCK" THEN 1 ELSE 0),
                  !.errors = @ + (IF br = "ERROR" THEN 1 ELSE 0)]

\* C33: the global counters and the counters of every live connection
\* satisfy requests == allowed + blocked + errors in the first state and
\* after every step that changes a counter, hence whenever the handlers are
\* suspended.  A step that counts a request counts one request, increments
\* exactly one of allowed, blocked and errors (the one its log record
\* names), does so in the global counters and in the stats of the
\* connection the request came from, and leaves the stats of every other
\* connection alone; no other step changes a counter.
CounterConsistency ==
    /\ Balanced(totals)
    /\ \A c \in ClientAddrs :
          connections[c] # NoStats => Balanced(connections[c])
    /\ [][(totals' # totals \/ connections' # connections)
          => /\ Balanced(totals')
             /\ \A c \in ClientAddrs :
                   connections'[c] # NoStats => Balanced(connections'[c])
             /\ totals' # totals
                => LET r == Last(log')
                       owner == << r.source_ip, r.source_port >>
                   IN  /\ Len(log') = Len(log) + 1
                       /\ totals' = Counted(totals, r.action)
                       /\ connections[owner] # NoStats
                       /\ connections' =
                             [connections EXCEPT
                                 ![owner] =
                                     Counted(connections[owner], r.action)]
             /\ totals' = totals
                => \A c \in ClientAddrs :
                      connections'[c]
                          \in {connections[c], NoStats, NewStats}]_vars

\* C33 witness: two connections are live, one has had a request forwarded,
\* the other one dropped as an error, and each is counted where it belongs
CountedPerConnection ==
    \E c, d \in ClientAddrs :
        /\ c # d
        /\ connections[c] # NoStats
        /\ connections[d] # NoStats
        /\ connections[c] =
              [requests |-> 1, allowed |-> 1, blocked |-> 0, errors |-> 0]
        /\ connections[d] =
              [requests |-> 1, allowed |-> 0, blocked |-> 0, errors |-> 1]
        /\ totals = [requests |-> 2, allowed |-> 1, blocked |-> 0, errors |-> 1]

\* the MBAP transaction id of a buffer
TransactionId(buf) == BE16(buf[1], buf[2])

\* C34: the reply the proxy relays to the client after it has forwarded
\* request R carries the transaction id of R, the request forwarded last on
\* that connection (the PLC answers every request once and echoes its
\* transaction id).
RelayedReplyMatchesRequest ==
    [][\A c \in ClientAddrs :
          (pc[c] = "plc_read" /\ Len(toClient'[c]) > Len(toClient[c]))
          => TransactionId(Last(toClient'[c]))
             = TransactionId(Last(upIn[c]))]_vars

\* the bytes of the buffers in s that were relayed from the upstream, in the
\* order they were written
RECURSIVE RelayedBytes(_)
RelayedBytes(s) ==
    IF s = << >> THEN << >>
    ELSE (IF Len(Head(s)) = 9 /\ Head(s)[8] >= 128 THEN << >> ELSE Head(s))
         \o RelayedBytes(Tail(s))

\* the bytes the PLC has sent in answer to the first n requests in reqs
RECURSIVE ReceivedBytes(_, _)
ReceivedBytes(reqs, n) ==
    IF n = 0 THEN << >>
    ELSE ReceivedBytes(reqs, n - 1) \o PlcResponse(reqs[n])

\* C35: on every connection, the bytes written to the client, the exception
\* replies the proxy builds left out, followed by the bytes that wait in the
\* upstream socket, are the bytes the PLC has sent, in order: what was
\* relayed is a prefix of what was received, nothing added, repeated, moved
\* or changed.
RelayedIsPrefixOfReceived ==
    \A c \in ClientAddrs :
        RelayedBytes(toClient[c]) \o upBuf[c]
        = ReceivedBytes(upIn[c], upAnswered[c])

\* C35 witness: after a reply timeout, the late reply and the reply to the
\* next request (another transaction id) were read together and relayed as
\* one buffer, and nothing is left in the upstream socket
TwoRepliesRelayed ==
    \E c \in ClientAddrs :
        /\ upReads[c] = << "timeout", "data" >>
        /\ Len(upIn[c]) = 2
        /\ TransactionId(upIn[c][1]) # TransactionId(upIn[c][2])
        /\ toClient[c]
              = << PlcResponse(upIn[c][1]) \o PlcResponse(upIn[c][2]) >>
        /\ upBuf[c] = << >>

\* C36: a non-empty client read is handled as one candidate frame: the step
\* appends one log record and does exactly one of three things, it writes
\* the whole buffer upstream (ALLOW), or writes one exception reply to the
\* client (BLOCK), or writes nothing (ERROR).  A read that returns two
\* well-formed requests together is one ERROR with reason LengthMismatch:
\* nothing is written upstream or to the client, one request and one error
\* are counted, and the second request is not looked at.
OneReadOneFrame ==
    [][\A c \in ClientAddrs : \A buf \in PipelinedInputs :
          (Len(log') > Len(log) /\ ClientRead(c, buf))
          => LET a == Last(log').action
                 up == upIn'[c] # upIn[c]
                 down == toClient'[c] # toClient[c]
             IN  /\ Len(log') = Len(log) + 1
                 /\ totals'.requests = totals.requests + 1
                 /\ \/ a = "ALLOW" /\ upIn'[c] = Append(upIn[c], buf) /\ ~down
                    \/ /\ a = "BLOCK"
                       /\ toClient'[c] = Append(toClient[c], ExceptionFor(buf))
                       /\ ~up
                    \/ a = "ERROR" /\ ~up /\ ~down
                 /\ buf = PipelinedFrame
                    => /\ WellFormed(ReadFrame)
                       /\ WellFormed(ReadAgainFrame)
                       /\ a = "ERROR"
                       /\ Last(log').reason = "LengthMismatch"
                       /\ totals'.errors = totals.errors + 1
                       /\ pc'[c] \in {"reading", "close_plc"}]_vars

\* C36 witness: S1 and a second read arrived in one read and were dropped as
\* one LengthMismatch error; nothing was forwarded or answered, and the S1
\* that came alone in the next read was forwarded
PipelinedPairDropped ==
    \E c \in ClientAddrs :
        /\ Len(log) = 2
        /\ log[1].action = "ERROR"
        /\ log[1].reason = "LengthMismatch"
        /\ log[2].action = "ALLOW"
        /\ totals.requests = 2
        /\ totals.errors = 1
        /\ upIn[c] = << ReadFrame >>
        /\ toClient[c] = << >>

\* C37: whenever handle_modbus_request has returned its response, every
\* connection the bridge has opened is closed.
BridgeClosesConnection ==
    bridge.pc = "idle"
    => \A i \in DOMAIN bridge.socks : bridge.socks[i] = "closed"
====
